---- MODULE Spec2Model ----
(***************************************************************************)
(* ZGC concurrent marker (ZMark, ZMarkTerminate, ZMarkFlush, ZMarkContext) *)
(* and director (ZDirector) of src/hotspot/share/gc/z.                     *)
(*                                                                         *)
(* Spec         the mark cycle: driver thread (start / mark / end), mark   *)
(*              workers (ZMark::work), Java threads (barrier pushes and    *)
(*              handshake flushes) over the shared termination state and   *)
(*              the stripe overflow lists.                                 *)
(* SpecDirector the director's metronome loop (ZDirector::run_service).    *)
(*                                                                         *)
(* Abstractions.  A mark stack is modelled by whether it holds entries,    *)
(* not by the entries: popping an entry leaves the stack non-empty or      *)
(* empty.  The 32-bit stripe bitmap is the set of its set bits.  Every     *)
(* operation of ZMarkTerminate is a CAS loop whose result is a function    *)
(* of the 64-bit word it last read and whose CAS succeeds only on that     *)
(* word, so each call is one atomic action taken at its last read.         *)
(***************************************************************************)
EXTENDS Integers, FiniteSets, Sequences, TLC

(*************************** bounds of the model **************************)
\* largest worker pool (ZWorkers::nconcurrent) tried
MaxWorkers == 2
\* number of Java/VM threads that own thread-local mark stacks
NJavaThreads == 1
\* mark stacks that can hold entries at the same time (allocator capacity)
MaxStacks == 3
\* rounds of "end() returned false; mark(false)" a cycle may take
MaxContinue == 1
\* should_timeout() calls followed in one end pass
MaxTimeoutCheckCount == 100
\* tunables whose values are set outside the files modelled
ZMarkStripesMaxLog2 == 1
ZMarkRestartMax == 1
ConcGCThreads == 2
\* worker counts tried when prepare_mark and set_default_affinity are looked
\* at on their own
MaxAffinityWorkers == 9
\* log2 of ZMarkPartialArrayMinSize, in bytes
ZMarkPartialArrayMinSizeShift == 5
\* largest array followed, in multiples of ZMarkPartialArrayMinSize
MaxArrayParts == 5
\* a double is written as an integer number of 1/Unit; quotients and
\* products are cut to that grid
Unit == 1000

(***************************** program constants *************************)
\* ZMarkTerminate::_terminate = (uint)-1.  A uint is written as the int with the
\* same 32 bits, so that 0 - 1 is _terminate and _terminate + 1 is 0, as in the
\* unsigned arithmetic of the code.
terminate == 0 - 1
\* size of a reference slot in bytes
oopSize == 8
ZMarkPartialArrayMinSize == 2 ^ ZMarkPartialArrayMinSizeShift
\* ZMarkStripesMax, a power of two (at most 32: one bit per stripe in the map)
ZMarkStripesMax == 2 ^ ZMarkStripesMaxLog2
\* ZMarkEndContext::_timeout_check_interval
timeout_check_interval == 100

WorkerIds == 0 .. (MaxWorkers - 1)
JavaThreads == { -i : i \in 1 .. NJavaThreads }
Threads == WorkerIds \cup JavaThreads
StripeIds == 0 .. (ZMarkStripesMax - 1)

VARIABLES
  \* ---- ZMark fields
  nrestart, ncomplete, ncontinue, nworkers,
  nstripes,                 \* _stripes.nstripes()
  stripes,                  \* stripe id -> number of stacks on its overflow list
  state_nactive_workers,    \* _terminate._state, bits 63-32
  state_active_stripes,     \* _terminate._state, bits 31-0 (set of set bits)
  \* ---- thread-local data
  stacks,                   \* thread -> stripes whose local stack holds entries
  published,                \* thread -> map returned by stacks->flush(), not yet signalled
  \* ---- control
  pcD,                      \* driver thread position
  pc,                       \* worker id -> position in ZMark::work
  pcJ,                      \* Java thread -> position
  handshake,                \* Java threads that still owe restart()'s handshake
  task,                     \* task run last: "None", "Roots", "Concurrent", "End"
  victim,                   \* worker id -> steal() cursor
  last_op,                  \* history: the last idle()/terminate call of a worker: the
                            \* operation, the word it read and what it returned
  \* ---- ZMarkEndContext fields of the end worker
  timeout_check_count, timeout_check_at, timeout_expired,
  \* ---- ZDirector
  dpc,                      \* director thread position in run_service
  rule_index,               \* make_gc_decision: index i of the loop over rules[]
  request,                  \* make_gc_decision: the request returned
  busy,                     \* ZDriver::is_busy()
  env,                      \* heap and statistics the rules read on this tick
  tick,                     \* history of the current tick
  \* ---- a single call looked at on its own
  call                      \* the function called last, its arguments and its result

markVars == << nrestart, ncomplete, ncontinue, nworkers, nstripes, stripes,
               state_nactive_workers, state_active_stripes, stacks, published,
               pcD, pc, pcJ, handshake, task, victim, last_op,
               timeout_check_count, timeout_check_at, timeout_expired >>
directorVars == << dpc, rule_index, request, busy, env, tick >>
callVars == << call >>
vars == << markVars, directorVars, callVars >>

(******************************* helpers **********************************)
Min(a, b) == IF a < b THEN a ELSE b

RECURSIVE SumOver(_, _)
SumOver(f, S) == IF S = {} THEN 0
                 ELSE LET x == CHOOSE y \in S : TRUE
                      IN f[x] + SumOver(f, S \ {x})

\* stacks holding entries: on overflow lists and in thread-local slots
StacksInUse(str, stk) ==
  SumOver(str, StripeIds) + SumOver([t \in Threads |-> Cardinality(stk[t])], Threads)

\* round_down_power_of_2 (utilities/powerOfTwo.hpp), for n >= 1
round_down_power_of_2(n) == CHOOSE p \in { 2 ^ k : k \in 0 .. 30 } : p <= n /\ n < 2 * p

\* mutant: the number of stripes is not capped
calculate_nstripes_uncapped(n) == round_down_power_of_2(n)

\* ZMark::calculate_nstripes
calculate_nstripes(n) == Min(round_down_power_of_2(n), ZMarkStripesMax)

\* ZMarkStripeSet::stripe_next: cyclic traversal
stripe_next(s) == (s + 1) % nstripes

\* a & b on unsigned integers
RECURSIVE BitAnd(_, _)
BitAnd(a, b) == IF a = 0 \/ b = 0 THEN 0
                ELSE (a % 2) * (b % 2) + 2 * BitAnd(a \div 2, b \div 2)

\* mutant: spillover workers are spread by their worker id, not by their
\* number among the spillover workers
home_stripe_spill_by_worker_id(nw, worker_id) ==
  LET spillover_limit == (nw \div nstripes) * nstripes
  IN IF worker_id < spillover_limit
     THEN BitAnd(worker_id, nstripes - 1)
     ELSE (worker_id * nstripes) \div (nw - spillover_limit)

\* ZMarkAffinity::set_default_affinity: index of the home stripe.  The
\* product of spillover_worker_id and the double spillover_chunk, cut to
\* size_t, is floor(id * nstripes / spillover_nworkers) for every power of
\* two nstripes <= 32.
home_stripe(nw, worker_id) ==
  LET spillover_limit == (nw \div nstripes) * nstripes
  IN IF worker_id < spillover_limit
     THEN BitAnd(worker_id, nstripes - 1)
     ELSE LET spillover_nworkers == nw - spillover_limit
              spillover_worker_id == worker_id - spillover_limit
          IN (spillover_worker_id * nstripes) \div spillover_nworkers

\* ZMarkAffinity::set_default_affinity: the stripe map, all stripes set
stripe_map == 0 .. (nstripes - 1)

home(w) == home_stripe(nworkers, w)

(************************* ZMarkTerminate *********************************)
\* The operations compute the new 64-bit word and the return value from the
\* word read last: [n |-> nactive_workers, s |-> active_stripes, ret |-> ...]

\* mutant: the new word is built without the old number of active workers
set_active_stripes_drops_nactive(old_n, old_s, map) ==
  [n |-> 0, s |-> old_s \cup map]

\* mutant: stripe 0 is flagged whatever the map holds
set_active_stripes_flags_stripe_0(old_n, old_s, map) ==
  [n |-> old_n, s |-> old_s \cup map \cup {0}]

\* ZMarkTerminate::set_active_stripes
set_active_stripes(old_n, old_s, map) ==
  [n |-> old_n, s |-> old_s \cup map]

\* mutant: the stripe flags are not looked at
has_active_stripes_never == FALSE

\* ZMarkTerminate::has_active_stripes
has_active_stripes == state_active_stripes # {}

\* mutant: a worker going idle is still counted as active
enter_idle_mode_no_decrement(old_n, old_s, map) ==
  LET new_s == old_s \ map
  IN [n |-> old_n, s |-> new_s, ret |-> (new_s = old_s)]

\* ZMarkTerminate::enter_idle_mode
enter_idle_mode(old_n, old_s, map) ==
  LET new_s == old_s \ map
      should_idle == (new_s = old_s)
  IN [n |-> IF should_idle THEN old_n - 1 ELSE old_n,
      s |-> new_s, ret |-> should_idle]

\* mutant: an idle worker never notices the stripes that were set
exit_idle_mode_stays_idle(old_n, old_s, map) ==
  [n |-> old_n, s |-> old_s, ret |-> FALSE]

\* mutant: the check for terminating workers is missing
exit_idle_mode_no_terminate_check(old_n, old_s, map) ==
  IF old_s \cap map = {} THEN [n |-> old_n, s |-> old_s, ret |-> FALSE]
  ELSE [n |-> old_n + 1, s |-> old_s, ret |-> TRUE]

\* mutant: the worker leaves idle mode without counting itself active again
exit_idle_mode_no_increment(old_n, old_s, map) ==
  IF old_s \cap map = {} THEN [n |-> old_n, s |-> old_s, ret |-> FALSE]
  ELSE IF old_n = terminate THEN [n |-> old_n, s |-> old_s, ret |-> FALSE]
  ELSE [n |-> old_n, s |-> old_s, ret |-> TRUE]

\* ZMarkTerminate::exit_idle_mode
exit_idle_mode(old_n, old_s, map) ==
  IF old_s \cap map = {} THEN [n |-> old_n, s |-> old_s, ret |-> FALSE]
  ELSE IF old_n = terminate THEN [n |-> old_n, s |-> old_s, ret |-> FALSE]
  ELSE [n |-> old_n + 1, s |-> old_s, ret |-> TRUE]

\* mutant: "&&" for "||" in the test for remaining work
enter_terminate_mode_and(old_n, old_s) ==
  IF old_n = terminate THEN [n |-> old_n, s |-> old_s, ret |-> TRUE]
  ELSE IF old_n # 0 /\ old_s # {} THEN [n |-> old_n, s |-> old_s, ret |-> FALSE]
  ELSE [n |-> terminate, s |-> {}, ret |-> TRUE]

\* ZMarkTerminate::enter_terminate_mode
enter_terminate_mode(old_n, old_s) ==
  IF old_n = terminate THEN [n |-> old_n, s |-> old_s, ret |-> TRUE]
  ELSE IF old_n # 0 \/ old_s # {} THEN [n |-> old_n, s |-> old_s, ret |-> FALSE]
  ELSE [n |-> terminate, s |-> {}, ret |-> TRUE]

\* mutant: off by one in the number of workers of the task
reset_one_less(n) == [n |-> n - 1, s |-> {}]

\* ZMarkTerminate::reset, called by the ZMarkTask constructor through ZMark::reset
reset(n) == [n |-> n, s |-> {}]

\* ZMarkStripeSet::is_empty: no stripe holds a stack
stripes_is_empty == \A s \in StripeIds : stripes[s] = 0

NoOp == [op |-> "none", n |-> 0, s |-> {}, ret |-> FALSE]

(***************************** initial state ******************************)
MarkInit ==
  /\ nrestart = 0 /\ ncomplete = 0 /\ ncontinue = 0 /\ nworkers = 0
  /\ nstripes = 1
  /\ stripes = [s \in StripeIds |-> 0]
  /\ state_nactive_workers = 0
  /\ state_active_stripes = {}
  /\ stacks = [t \in Threads |-> {}]
  /\ published = [t \in Threads |-> {}]
  /\ pcD = "init"
  /\ pc = [w \in WorkerIds |-> "done"]
  /\ pcJ = [j \in JavaThreads |-> "run"]
  /\ handshake = {}
  /\ task = "None"
  /\ victim = [w \in WorkerIds |-> 0]
  /\ last_op = NoOp
  /\ timeout_check_count = 0
  /\ timeout_check_at = timeout_check_interval
  /\ timeout_expired = FALSE

\* driver positions at which Java threads run concurrently with marking
ConcurrentPcs == { "mark_roots", "roots_wait", "mark_loop", "task_wait",
                   "restart", "restart_hs", "marked", "continue" }

TaskWorkers == 0 .. (nworkers - 1)


counters == << nrestart, ncomplete, ncontinue, nworkers, nstripes >>
endContext == << timeout_check_count, timeout_check_at, timeout_expired >>
termState == << state_nactive_workers, state_active_stripes >>
javaCtl == << pcJ, handshake >>
history == << last_op >>

(***************************** mark workers *******************************)
\* ZMark::drain: one iteration of the loop.  stacks->pop() takes an entry of
\* the home stripe's local stack, reclaiming a stack of the home stripe's
\* overflow list when the local one is empty; mark_and_follow() may push an
\* entry (publish = false), handing a full local stack to its stripe without
\* signalling; then Context::should_timeout() is asked.
Drain(w) ==
  /\ pc[w] = "drain"
  /\ w \in TaskWorkers
  /\ LET h == home(w) IN
     IF h \notin stacks[w] /\ stripes[h] = 0
     THEN \* pop() returned false: drain() returns true
          /\ pc' = [pc EXCEPT ![w] = "flush"]
          /\ UNCHANGED << counters, stripes, termState, stacks, published, pcD,
                          javaCtl, task, victim, endContext >>
     ELSE /\ task = "End" => timeout_check_count < MaxTimeoutCheckCount
          /\ \E leaves \in BOOLEAN, push \in stripe_map \cup {-1}, full \in BOOLEAN :
               LET str1 == IF h \in stacks[w] THEN stripes
                           ELSE [stripes EXCEPT ![h] = @ - 1]
                   loc1 == IF leaves THEN stacks[w] \cup {h} ELSE stacks[w] \ {h}
                   stk1 == [stacks EXCEPT ![w] = loc1]
                   room == StacksInUse(str1, stk1) < MaxStacks
               IN /\ \/ push = -1 /\ ~full
                     \/ push # -1 /\ push \in loc1 /\ ~full
                     \/ push # -1 /\ push \in loc1 /\ full /\ room
                     \/ push # -1 /\ push \notin loc1 /\ ~full /\ room
                  /\ stripes' = IF full THEN [str1 EXCEPT ![push] = @ + 1] ELSE str1
                  /\ stacks' = IF push = -1 THEN stk1
                               ELSE [stk1 EXCEPT ![w] = loc1 \cup {push}]
          /\ IF task = "End"
             THEN \* ZMarkEndContext::should_timeout
                  /\ timeout_check_count' = timeout_check_count + 1
                  /\ IF timeout_check_count' = timeout_check_at
                     THEN \E late \in BOOLEAN :   \* now >= _timeout_end
                            /\ timeout_expired' = late
                            /\ timeout_check_at' =
                                 IF late THEN timeout_check_at
                                 ELSE timeout_check_at + timeout_check_interval
                     ELSE UNCHANGED << timeout_expired, timeout_check_at >>
                  /\ pc' = [pc EXCEPT ![w] = IF timeout_expired' THEN "flush" ELSE "drain"]
             ELSE \* ZMarkContext::should_timeout: never
                  UNCHANGED << pc, endContext >>
          /\ UNCHANGED << counters, termState, published, pcD, javaCtl, task, victim >>
  /\ UNCHANGED << directorVars, callVars, last_op >>

\* Where ZMark::work goes after drain_and_publish: out of the loop if drain
\* timed out, else to steal()
AfterPublish == IF task = "End" /\ timeout_expired THEN "free" ELSE "steal"

\* mutant: the worker goes on without handing its local stacks over
FlushWithoutHandOver(w) ==
  /\ pc[w] = "flush"
  /\ pc' = [pc EXCEPT ![w] = AfterPublish]
  /\ victim' = [victim EXCEPT ![w] = stripe_next(home(w))]
  /\ UNCHANGED << counters, stripes, termState, stacks, published, pcD, javaCtl, task,
                  endContext >>
  /\ UNCHANGED << directorVars, callVars, last_op >>

\* ZMark::publish, first half: stacks->flush() hands every non-empty local
\* stack to its stripe and returns the map of the stripes that got one.  With
\* an empty map set_active_stripes() returns at "Already set" and the worker
\* goes on.
Flush(w) ==
  /\ pc[w] = "flush"
  /\ published' = [published EXCEPT ![w] = stacks[w]]
  /\ stripes' = [s \in StripeIds |-> IF s \in stacks[w] THEN stripes[s] + 1 ELSE stripes[s]]
  /\ stacks' = [stacks EXCEPT ![w] = {}]
  /\ IF stacks[w] = {}
     THEN /\ pc' = [pc EXCEPT ![w] = AfterPublish]
          /\ victim' = [victim EXCEPT ![w] = stripe_next(home(w))]
     ELSE /\ pc' = [pc EXCEPT ![w] = "signal"]
          /\ UNCHANGED victim
  /\ UNCHANGED << counters, termState, pcD, javaCtl, task, endContext >>
  /\ UNCHANGED << directorVars, callVars, last_op >>

\* ZMark::publish, second half: _terminate.set_active_stripes(published)
Signal(w) ==
  /\ pc[w] = "signal"
  /\ LET new == set_active_stripes(state_nactive_workers, state_active_stripes, published[w])
     IN /\ state_nactive_workers' = new.n
        /\ state_active_stripes' = new.s
  /\ published' = [published EXCEPT ![w] = {}]
  /\ pc' = [pc EXCEPT ![w] = AfterPublish]
  /\ victim' = [victim EXCEPT ![w] = stripe_next(home(w))]
  /\ UNCHANGED << counters, stripes, stacks, pcD, javaCtl, task, endContext >>
  /\ UNCHANGED << directorVars, callVars, last_op >>

\* ZMark::steal: the loop over the victims, one victim->steal_stack() per step.
\* With a single stripe the loop is not entered.
Steal(w) ==
  /\ pc[w] = "steal"
  /\ LET v == victim[w] IN
     IF v = home(w)
     THEN \* nothing to steal
          /\ pc' = [pc EXCEPT ![w] = "enter_idle"]
          /\ UNCHANGED << stripes, stacks, victim >>
     ELSE IF v \in stripe_map /\ stripes[v] > 0
     THEN \* victim->steal_stack() succeeded: install as the home stripe's stack
          /\ stripes' = [stripes EXCEPT ![v] = @ - 1]
          /\ stacks' = [stacks EXCEPT ![w] = @ \cup {home(w)}]
          /\ pc' = [pc EXCEPT ![w] = "drain"]
          /\ victim' = [victim EXCEPT ![w] = 0]
     ELSE \* failed, try next stripe
          /\ victim' = [victim EXCEPT ![w] = IF stripe_next(v) = home(w) THEN 0
                                             ELSE stripe_next(v)]
          /\ pc' = [pc EXCEPT ![w] = IF stripe_next(v) = home(w) THEN "enter_idle"
                                     ELSE "steal"]
          /\ UNCHANGED << stripes, stacks >>
  /\ UNCHANGED << counters, termState, published, pcD, javaCtl, task, endContext >>
  /\ UNCHANGED << directorVars, callVars, last_op >>

\* ZMarkTerminate::idle: enter_idle_mode(stripe_map)
EnterIdle(w) ==
  /\ pc[w] = "enter_idle"
  /\ LET new == enter_idle_mode(state_nactive_workers, state_active_stripes, stripe_map)
     IN /\ state_nactive_workers' = new.n
        /\ state_active_stripes' = new.s
        /\ pc' = [pc EXCEPT ![w] = IF new.ret THEN "idle_terminate" ELSE "drain"]
  /\ UNCHANGED << counters, stripes, stacks, published, pcD, javaCtl, task, victim,
                  endContext >>
  /\ last_op' = [op |-> "enter_idle_mode", n |-> state_nactive_workers,
                 s |-> state_active_stripes,
                 ret |-> enter_idle_mode(state_nactive_workers, state_active_stripes, stripe_map).ret]
  /\ UNCHANGED << directorVars, callVars >>

\* ZMarkTerminate::idle, in the loop: enter_terminate_mode()
EnterTerminate(w) ==
  /\ pc[w] = "idle_terminate"
  /\ LET new == enter_terminate_mode(state_nactive_workers, state_active_stripes)
     IN /\ state_nactive_workers' = new.n
        /\ state_active_stripes' = new.s
        /\ pc' = [pc EXCEPT ![w] = IF new.ret THEN "free" ELSE "idle_exit"]
  /\ UNCHANGED << counters, stripes, stacks, published, pcD, javaCtl, task, victim,
                  endContext >>
  /\ last_op' = [op |-> "enter_terminate_mode", n |-> state_nactive_workers,
                 s |-> state_active_stripes,
                 ret |-> enter_terminate_mode(state_nactive_workers, state_active_stripes).ret]
  /\ UNCHANGED << directorVars, callVars >>

\* ZMarkTerminate::idle, in the loop: exit_idle_mode(stripe_map), then the sleep
ExitIdle(w) ==
  /\ pc[w] = "idle_exit"
  /\ LET new == exit_idle_mode(state_nactive_workers, state_active_stripes, stripe_map)
     IN /\ state_nactive_workers' = new.n
        /\ state_active_stripes' = new.s
        /\ pc' = [pc EXCEPT ![w] = IF new.ret THEN "drain" ELSE "idle_terminate"]
  /\ UNCHANGED << counters, stripes, stacks, published, pcD, javaCtl, task, victim,
                  endContext >>
  /\ last_op' = [op |-> "exit_idle_mode", n |-> state_nactive_workers,
                 s |-> state_active_stripes,
                 ret |-> exit_idle_mode(state_nactive_workers, state_active_stripes, stripe_map).ret]
  /\ UNCHANGED << directorVars, callVars >>

\* ZMark::free at the end of ZMark::work
Free(w) ==
  /\ pc[w] = "free"
  /\ pc' = [pc EXCEPT ![w] = "done"]
  /\ UNCHANGED << counters, stripes, termState, stacks, published, pcD, javaCtl, task,
                  victim, endContext >>
  /\ UNCHANGED << directorVars, callVars, last_op >>

\* ZMarkConcurrentRootsTask::work: scan roots (pushes to the worker's stacks),
\* then ZMark::flush(Thread::current(), true)
RootsWork(w) ==
  /\ pc[w] = "roots"
  /\ \E roots \in SUBSET stripe_map :
       /\ StacksInUse(stripes, stacks) + Cardinality(roots) <= MaxStacks
       /\ stripes' = [s \in StripeIds |-> IF s \in roots THEN stripes[s] + 1 ELSE stripes[s]]
       /\ LET new == set_active_stripes(state_nactive_workers, state_active_stripes, roots)
          IN /\ state_nactive_workers' = new.n
             /\ state_active_stripes' = new.s
  /\ pc' = [pc EXCEPT ![w] = "done"]
  /\ UNCHANGED << counters, stacks, published, pcD, javaCtl, task, victim, endContext >>
  /\ UNCHANGED << directorVars, callVars, last_op >>


(***************************** Java threads *******************************)
\* A flush of thread j's stacks: ZMark::flush -> ZMark::publish, first half
FlushThread(j, next) ==
  /\ published' = [published EXCEPT ![j] = stacks[j]]
  /\ stripes' = [s \in StripeIds |-> IF s \in stacks[j] THEN stripes[s] + 1 ELSE stripes[s]]
  /\ stacks' = [stacks EXCEPT ![j] = {}]
  /\ pcJ' = [pcJ EXCEPT ![j] = next]

\* ZMark::mark_object<.., publish = true> from a barrier: push an entry; a
\* full local stack is handed to its stripe and the stripe is then signalled
JavaPush(j) ==
  /\ pcD \in ConcurrentPcs
  /\ pcJ[j] = "run"
  /\ StacksInUse(stripes, stacks) < MaxStacks
  /\ \E t \in stripe_map :
       IF t \in stacks[j]
       THEN /\ stripes' = [stripes EXCEPT ![t] = @ + 1]
            /\ published' = [published EXCEPT ![j] = {t}]
            /\ pcJ' = [pcJ EXCEPT ![j] = "signal_push"]
            /\ UNCHANGED stacks
       ELSE /\ stacks' = [stacks EXCEPT ![j] = @ \cup {t}]
            /\ UNCHANGED << stripes, published, pcJ >>
  /\ UNCHANGED << counters, termState, pcD, pc, handshake, task, victim, endContext >>
  /\ UNCHANGED << directorVars, callVars, last_op >>

\* ZMarkFlushPeriodicTask::task: flush(thread, false) by handshake while a
\* ZMarkFlushPeriodic is enrolled, i.e. while mark() runs a ZMarkTask
PeriodicFlush(j) ==
  /\ pcD = "task_wait"
  /\ pcJ[j] = "run"
  /\ stacks[j] # {}
  /\ FlushThread(j, "signal_flush")
  /\ UNCHANGED << counters, termState, pcD, pc, handshake, task, victim, endContext >>
  /\ UNCHANGED << directorVars, callVars, last_op >>

\* ZMarkFlush::vm_and_java_threads from restart(): flush(thread, true)
HandshakeFlush(j) ==
  /\ pcD = "restart_hs"
  /\ j \in handshake
  /\ pcJ[j] = "run"
  /\ FlushThread(j, "signal_handshake")
  /\ UNCHANGED << counters, termState, pcD, pc, handshake, task, victim, endContext >>
  /\ UNCHANGED << directorVars, callVars, last_op >>

\* ZMark::publish, second half, on behalf of thread j
JavaSignal(j) ==
  /\ pcJ[j] \in { "signal_push", "signal_flush", "signal_handshake" }
  /\ LET new == set_active_stripes(state_nactive_workers, state_active_stripes, published[j])
     IN /\ state_nactive_workers' = new.n
        /\ state_active_stripes' = new.s
  /\ published' = [published EXCEPT ![j] = {}]
  /\ handshake' = IF pcJ[j] = "signal_handshake" THEN handshake \ {j} ELSE handshake
  /\ pcJ' = [pcJ EXCEPT ![j] = "run"]
  /\ UNCHANGED << counters, stripes, stacks, pcD, pc, task, victim, endContext >>
  /\ UNCHANGED << directorVars, callVars, last_op >>

(******************************* driver ***********************************)
\* ZMark::prepare_mark with w == _workers->nconcurrent()
prepare_mark(w) ==
  /\ nrestart' = 0 /\ ncomplete' = 0 /\ ncontinue' = 0
  /\ nworkers' = w
  /\ nstripes' = calculate_nstripes(w)

\* ZMark::start -> prepare_mark
Start ==
  /\ pcD \in { "init", "ended" }
  /\ \E w \in 1 .. MaxWorkers : prepare_mark(w)      \* _workers->nconcurrent()
  /\ pcD' = "mark_roots"
  /\ UNCHANGED << stripes, termState, stacks, published, pc, javaCtl, task, victim,
                  endContext >>
  /\ UNCHANGED << directorVars, callVars, last_op >>

\* ZMark::mark(true): run ZMarkConcurrentRootsTask
RootsStart ==
  /\ pcD = "mark_roots"
  /\ pc' = [w \in WorkerIds |-> IF w \in TaskWorkers THEN "roots" ELSE pc[w]]
  /\ task' = "Roots"
  /\ pcD' = "roots_wait"
  /\ UNCHANGED << counters, stripes, termState, stacks, published, javaCtl, victim,
                  endContext >>
  /\ UNCHANGED << directorVars, callVars, last_op >>

RootsDone ==
  /\ pcD = "roots_wait"
  /\ \A w \in TaskWorkers : pc[w] = "done"
  /\ pcD' = "mark_loop"
  /\ UNCHANGED << counters, stripes, termState, stacks, published, pc, javaCtl, task,
                  victim, endContext >>
  /\ UNCHANGED << directorVars, callVars, last_op >>

\* ZMark::mark, loop body: ZMarkFlushPeriodic enrolled, ZMarkTask<ZMarkContext>
\* constructed (reset(nworkers)) and run on the concurrent workers
TaskStart ==
  /\ pcD = "mark_loop"
  /\ LET new == reset(nworkers)
     IN /\ state_nactive_workers' = new.n
        /\ state_active_stripes' = new.s
  /\ pc' = [w \in WorkerIds |-> IF w \in TaskWorkers THEN "drain" ELSE pc[w]]
  /\ task' = "Concurrent"
  /\ pcD' = "task_wait"
  /\ UNCHANGED << counters, stripes, stacks, published, javaCtl, victim, endContext >>
  /\ last_op' = NoOp
  /\ UNCHANGED << directorVars, callVars >>

\* run_concurrent returned and the periodic flush is disenrolled
TaskDone ==
  /\ pcD = "task_wait"
  /\ \A w \in TaskWorkers : pc[w] = "done"
  /\ \A j \in JavaThreads : pcJ[j] # "signal_flush"
  /\ pcD' = "restart"
  /\ UNCHANGED << counters, stripes, termState, stacks, published, pc, javaCtl, task,
                  victim, endContext >>
  /\ last_op' = NoOp
  /\ UNCHANGED << directorVars, callVars >>

\* mutant: restart() without its limit
restart_limit_reached_never == FALSE

\* ZMark::restart: "_nrestart == max", max = ZMarkRestartMax * (_ncontinue + 1)
restart_limit_reached == nrestart = ZMarkRestartMax * (ncontinue + 1)

\* ZMark::restart, up to the handshake
Restart ==
  /\ pcD = "restart"
  /\ IF restart_limit_reached
     THEN pcD' = "marked" /\ UNCHANGED handshake
     ELSE pcD' = "restart_hs" /\ handshake' = JavaThreads
  /\ UNCHANGED << counters, stripes, termState, stacks, published, pc, pcJ, task,
                  victim, endContext >>
  /\ UNCHANGED << directorVars, callVars, last_op >>

\* ZMark::restart, after the handshake
RestartCheck ==
  /\ pcD = "restart_hs"
  /\ handshake = {}
  /\ IF has_active_stripes
     THEN nrestart' = nrestart + 1 /\ pcD' = "mark_loop"
     ELSE nrestart' = nrestart /\ pcD' = "marked"
  /\ UNCHANGED << ncomplete, ncontinue, nworkers, nstripes, stripes, termState, stacks,
                  published, pc, javaCtl, task, victim, endContext >>
  /\ UNCHANGED << directorVars, callVars, last_op >>

\* mark() has returned; the mark end pause brings every Java thread to a
\* safepoint and the driver calls end() -> complete(), first verification point
EndBegin ==
  /\ pcD = "marked"
  /\ \A j \in JavaThreads : pcJ[j] = "run"
  /\ pcD' = "complete_verify1"
  /\ task' = "None"
  /\ UNCHANGED << counters, stripes, termState, stacks, published, pc, javaCtl, victim,
                  endContext >>
  /\ UNCHANGED << directorVars, callVars, last_op >>

\* ZMark::complete: _flush.all_threads() at the safepoint
FlushAll ==
  /\ pcD = "complete_verify1"
  /\ stripes' = [s \in StripeIds |->
                   stripes[s] + Cardinality({ t \in Threads : s \in stacks[t] })]
  /\ LET new == set_active_stripes(state_nactive_workers, state_active_stripes,
                                   UNION { stacks[t] : t \in Threads })
     IN /\ state_nactive_workers' = new.n
        /\ state_active_stripes' = new.s
  /\ stacks' = [t \in Threads |-> {}]
  /\ pcD' = "complete_verify2"
  /\ UNCHANGED << counters, published, pc, javaCtl, task, victim, endContext >>
  /\ UNCHANGED << directorVars, callVars, last_op >>

\* ZMark::complete: if has_active_stripes(), ZMarkTask<ZMarkEndContext>(this, 1)
\* is constructed (reset(1)) and run serially
EndTaskStart ==
  /\ pcD = "complete_verify2"
  /\ IF has_active_stripes
     THEN /\ LET new == reset(1)
             IN /\ state_nactive_workers' = new.n
                /\ state_active_stripes' = new.s
          /\ pc' = [pc EXCEPT ![0] = "drain"]
          /\ task' = "End"
          \* ZMarkEndContext::ZMarkEndContext
          /\ timeout_check_count' = 0
          /\ timeout_check_at' = timeout_check_interval
          /\ timeout_expired' = FALSE
          /\ pcD' = "end_wait"
     ELSE /\ pcD' = "complete_verify3"
          /\ UNCHANGED << termState, pc, task, endContext >>
  /\ UNCHANGED << counters, stripes, stacks, published, javaCtl, victim >>
  /\ last_op' = IF has_active_stripes THEN NoOp ELSE last_op
  /\ UNCHANGED << directorVars, callVars >>

EndTaskDone ==
  /\ pcD = "end_wait"
  /\ pc[0] = "done"
  /\ ncomplete' = ncomplete + 1
  /\ pcD' = "complete_verify3"
  \* ZMarkEndContext::~ZMarkEndContext; how the pass ended is kept until
  \* end() returns
  /\ timeout_check_count' = 0
  /\ timeout_check_at' = timeout_check_interval
  /\ UNCHANGED << nrestart, ncontinue, nworkers, nstripes, stripes, termState, stacks,
                  published, pc, javaCtl, task, victim, timeout_expired >>
  /\ last_op' = NoOp
  /\ UNCHANGED << directorVars, callVars >>

\* ZMark::complete returns !has_active_stripes(); ZMark::end
EndReturn ==
  /\ pcD = "complete_verify3"
  /\ IF has_active_stripes
     THEN ncontinue' = ncontinue + 1 /\ pcD' = "continue"
     ELSE ncontinue' = ncontinue /\ pcD' = "ended"
  /\ timeout_expired' = FALSE
  /\ task' = "None"
  /\ UNCHANGED << nrestart, ncomplete, nworkers, nstripes, stripes, termState, stacks,
                  published, pc, javaCtl, victim, timeout_check_count, timeout_check_at >>
  /\ UNCHANGED << directorVars, callVars, last_op >>

\* end() returned false: the driver calls mark(false)
Continue ==
  /\ pcD = "continue"
  /\ ncontinue <= MaxContinue
  /\ pcD' = "mark_loop"
  /\ UNCHANGED << counters, stripes, termState, stacks, published, pc, javaCtl, task,
                  victim, endContext >>
  /\ UNCHANGED << directorVars, callVars, last_op >>

MarkNext ==
  \/ Start \/ RootsStart \/ RootsDone \/ TaskStart \/ TaskDone
  \/ Restart \/ RestartCheck \/ EndBegin \/ FlushAll \/ EndTaskStart
  \/ EndTaskDone \/ EndReturn \/ Continue
  \/ \E w \in WorkerIds :
       \/ Drain(w) \/ Flush(w) \/ Signal(w) \/ Steal(w) \/ EnterIdle(w)
       \/ EnterTerminate(w) \/ ExitIdle(w) \/ Free(w) \/ RootsWork(w)
  \/ \E j \in JavaThreads :
       \/ JavaPush(j) \/ PeriodicFlush(j) \/ HandshakeFlush(j) \/ JavaSignal(j)

(****************************** director **********************************)
\* ZDriverRequest(cause, nworkers); ZDriverRequest(cause) takes ConcGCThreads
Request(cause, n) == [cause |-> cause, nworkers |-> n]
no_gc == "None"

(*********************** arithmetic of the rules **************************)
Max(a, b) == IF a > b THEN a ELSE b
\* x * y and x / y of two doubles (y > 0, x >= 0 in every use)
FMul(x, y) == (x * y) \div Unit
FDiv(x, y) == (x * Unit) \div y
\* ceil of a double x >= 0, as an integer
Ceil(x) == (x + Unit - 1) \div Unit
\* clamp(value, min, max)
clamp(value, min, max) == Min(Max(value, min), max)
\* the double 0.001
Milli == Max(Unit \div 1000, 1)

\* constexpr double one_in_1000 = 3.290527
one_in_1000 == (32905 * Unit) \div 10000
\* ZStatAllocRate::sample_hz
sample_hz == 10
\* constexpr double sample_interval = 1.0 / ZStatAllocRate::sample_hz
sample_interval == Unit \div sample_hz

\* What an allocation rate rule reads.  Sizes are integers (size_t), in a
\* unit of memory of which one_byte is the double 1.0 bytes; rates (per
\* second) and times (seconds) are doubles.  relocation_headroom <=
\* soft_max_capacity and last_active_workers <= ConcGCThreads throughout.
\*   is_time_trustable, soft_max_capacity, used, relocation_headroom,
\*   avg, sd, spike (ZAllocationSpikeTolerance), serial_davg, serial_dsd,
\*   parallelizable_davg, parallelizable_dsd, last_active_workers,
\*   time_since_last, C (ConcGCThreads), UseDynamicNumberOfGCThreads,
\*   UseNewCode, one_byte

\* mutant: the relocation headroom is not taken off
free_of_ignores_headroom(in) ==
  in.soft_max_capacity - Min(in.soft_max_capacity, in.used)

\* free: what is left below the soft limit, less the relocation headroom
free_of(in) ==
  LET free_including_headroom == in.soft_max_capacity - Min(in.soft_max_capacity, in.used)
  IN free_including_headroom - Min(free_including_headroom, in.relocation_headroom)

serial_gc_time_of(in) == in.serial_davg + FMul(in.serial_dsd, one_in_1000)
parallelizable_gc_time_of(in) ==
  in.parallelizable_davg + FMul(in.parallelizable_dsd, one_in_1000)

estimated_gc_workers(serial_gc_time, parallelizable_gc_time, time_until_deadline) ==
  LET parallelizable_time_until_deadline == Max(time_until_deadline - serial_gc_time, Milli)
  IN FDiv(parallelizable_gc_time, parallelizable_time_until_deadline)

\* mutant: the number of workers is not limited to ConcGCThreads
discrete_gc_workers_no_upper_limit(gc_workers, C) == Max(Ceil(gc_workers), 1)

discrete_gc_workers(gc_workers, C) == clamp(Ceil(gc_workers), 1, C)

\* mutant: the worker count is lowered without looking at the next cycle
select_gc_workers_lowers_at_once(in, serial_gc_time, parallelizable_gc_time, time_until_oom) ==
  Max(estimated_gc_workers(serial_gc_time, parallelizable_gc_time, 10 * Unit),
      estimated_gc_workers(serial_gc_time, parallelizable_gc_time, time_until_oom))

\* select_gc_workers; the result is a double
select_gc_workers(in, serial_gc_time, parallelizable_gc_time, time_until_oom) ==
  LET avoid_long_gc_workers ==
        estimated_gc_workers(serial_gc_time, parallelizable_gc_time, 10 * Unit)
      avoid_oom_gc_workers ==
        estimated_gc_workers(serial_gc_time, parallelizable_gc_time, time_until_oom)
      gc_workers == Max(avoid_long_gc_workers, avoid_oom_gc_workers)
      actual_gc_workers == discrete_gc_workers(gc_workers, in.C)
      last_gc_workers == in.last_active_workers
  IN IF actual_gc_workers < last_gc_workers
     THEN LET gc_duration_delta == (parallelizable_gc_time \div actual_gc_workers)
                                     - (parallelizable_gc_time \div last_gc_workers)
              additional_time_for_allocations ==
                in.time_since_last - gc_duration_delta - sample_interval
              next_time_until_oom == time_until_oom + additional_time_for_allocations
              next_avoid_oom_gc_workers ==
                estimated_gc_workers(serial_gc_time, parallelizable_gc_time,
                                     next_time_until_oom)
              next_gc_workers == Max(avoid_long_gc_workers, next_avoid_oom_gc_workers)
          IN Min(Ceil(next_gc_workers + (Unit \div 2)) * Unit, last_gc_workers * Unit)
     ELSE gc_workers

\* mutant: an unsteady allocation rate does not hold the worker count at
\* that of the last cycle
dynamic_terms_shrinks_when_unsteady(in) ==
  LET free == free_of(in)
      alloc_rate_sd_percent == FDiv(in.sd, in.avg + in.one_byte)
      alloc_rate_steady == alloc_rate_sd_percent < (15 * Unit) \div 100
      alloc_rate == FMul(in.avg, in.spike) + FMul(in.sd, one_in_1000) + in.one_byte
      time_until_oom_steady == FDiv(free * Unit, alloc_rate)
      time_until_oom == IF alloc_rate_steady THEN time_until_oom_steady
                        ELSE FDiv(time_until_oom_steady, Unit + alloc_rate_sd_percent)
      serial_gc_time == serial_gc_time_of(in)
      parallelizable_gc_time == parallelizable_gc_time_of(in)
      gc_workers == select_gc_workers(in, serial_gc_time, parallelizable_gc_time,
                                      time_until_oom)
      actual_gc_workers == discrete_gc_workers(gc_workers, in.C)
      actual_gc_duration == serial_gc_time + (parallelizable_gc_time \div actual_gc_workers)
      more_safety_for_fewer_workers == (in.C - actual_gc_workers) * sample_interval
  IN [ time_until_oom |-> time_until_oom,
       gc_workers |-> gc_workers,
       actual_gc_workers |-> actual_gc_workers,
       last_gc_workers |-> in.last_active_workers,
       actual_gc_duration |-> actual_gc_duration,
       time_until_gc |-> time_until_oom - actual_gc_duration - sample_interval
                           - more_safety_for_fewer_workers ]

\* the quantities rule_allocation_rate_dynamic computes
dynamic_terms(in) ==
  LET free == free_of(in)
      alloc_rate_sd_percent == FDiv(in.sd, in.avg + in.one_byte)
      alloc_rate_steady == alloc_rate_sd_percent < (15 * Unit) \div 100
      alloc_rate == FMul(in.avg, in.spike) + FMul(in.sd, one_in_1000) + in.one_byte
      time_until_oom_steady == FDiv(free * Unit, alloc_rate)
      time_until_oom == IF alloc_rate_steady THEN time_until_oom_steady
                        ELSE FDiv(time_until_oom_steady, Unit + alloc_rate_sd_percent)
      serial_gc_time == serial_gc_time_of(in)
      parallelizable_gc_time == parallelizable_gc_time_of(in)
      selected == select_gc_workers(in, serial_gc_time, parallelizable_gc_time,
                                    time_until_oom)
      gc_workers == IF alloc_rate_steady THEN selected
                    ELSE Max(selected, in.last_active_workers * Unit)
      actual_gc_workers == discrete_gc_workers(gc_workers, in.C)
      actual_gc_duration == serial_gc_time + (parallelizable_gc_time \div actual_gc_workers)
      more_safety_for_fewer_workers == (in.C - actual_gc_workers) * sample_interval
  IN [ time_until_oom |-> time_until_oom,
       gc_workers |-> gc_workers,
       actual_gc_workers |-> actual_gc_workers,
       last_gc_workers |-> in.last_active_workers,
       actual_gc_duration |-> actual_gc_duration,
       time_until_gc |-> time_until_oom - actual_gc_duration - sample_interval
                           - more_safety_for_fewer_workers ]

\* mutant: a collection is asked for only when time has run out
rule_allocation_rate_dynamic_time_only(in) ==
  IF ~in.is_time_trustable
  THEN Request(no_gc, in.C)
  ELSE LET t == dynamic_terms(in) IN
       IF t.time_until_gc > 0
       THEN Request(no_gc, t.actual_gc_workers)
       ELSE Request("AllocRate", t.actual_gc_workers)

rule_allocation_rate_dynamic(in) ==
  IF ~in.is_time_trustable
  THEN Request(no_gc, in.C)
  ELSE LET t == dynamic_terms(in) IN
       IF t.actual_gc_workers <= t.last_gc_workers /\ t.time_until_gc > 0
       THEN Request(no_gc, t.actual_gc_workers)
       ELSE Request("AllocRate", t.actual_gc_workers)

rule_allocation_rate_dynamic_orig(in) ==
  IF ~in.is_time_trustable
  THEN Request(no_gc, in.C)
  ELSE
  LET alloc_rate == FMul(in.avg, in.spike) + FMul(in.sd, one_in_1000) + in.one_byte
      mutator_max == in.soft_max_capacity - in.relocation_headroom
      alloc_rate_sd_percent == FDiv(in.sd, in.avg + in.one_byte)
      free_bytes == IF mutator_max > in.used THEN mutator_max - in.used ELSE 0
      time_till_oom_0 == Max(FDiv(free_bytes * Unit, alloc_rate) - sample_interval, Milli)
      cputime_total == serial_gc_time_of(in) + parallelizable_gc_time_of(in)
      previous_n == in.last_active_workers
      alloc_rate_sd_threshold == (15 * Unit) \div 100
      min_n == clamp(Ceil(cputime_total \div 10), 1, in.C)
      volatile == alloc_rate_sd_percent >= alloc_rate_sd_threshold
      \* the quotient of two positive doubles stays positive
      time_till_oom == IF volatile
                       THEN Max(FDiv(time_till_oom_0, Unit + alloc_rate_sd_percent), 1)
                       ELSE time_till_oom_0
      n_ideal == FDiv(cputime_total, time_till_oom)
      n == IF volatile
           THEN clamp(Ceil(n_ideal), Max(min_n, previous_n), in.C)
           ELSE LET n_1 == clamp(Ceil(n_ideal), min_n, in.C) IN
                IF n_1 < previous_n
                THEN LET gc_duration_delta ==
                           FMul(cputime_total, (Unit \div n_1) - (Unit \div previous_n))
                         additional_time_for_allocations_to_happen ==
                           in.time_since_last - gc_duration_delta - sample_interval
                         next_time_till_oom ==
                           time_till_oom + additional_time_for_allocations_to_happen
                         n_ideal_next_gc ==
                           FDiv(cputime_total, Max(next_time_till_oom, Milli))
                     IN clamp(Ceil(n_ideal_next_gc + (Unit \div 2)), min_n, previous_n)
                ELSE n_1
      suggested_n == n
      extra == sample_interval + ((in.C - n) * sample_interval)
      time_till_gc == time_till_oom - ((cputime_total \div n) + extra)
      ret == n > previous_n \/ time_till_gc <= 0
  IN IF ret THEN Request("AllocRate", suggested_n) ELSE Request(no_gc, suggested_n)

\* the quantities rule_allocation_rate_static computes
static_terms(in) ==
  LET free == free_of(in)
      max_alloc_rate == FMul(in.avg, in.spike) + FMul(in.sd, one_in_1000)
      time_until_oom == FDiv(free * Unit, max_alloc_rate + in.one_byte)
      gc_duration == serial_gc_time_of(in) + (parallelizable_gc_time_of(in) \div in.C)
  IN [ time_until_oom |-> time_until_oom, gc_duration |-> gc_duration,
       time_until_gc |-> time_until_oom - gc_duration - sample_interval ]

\* mutant: the rule does not look at is_time_trustable
rule_allocation_rate_static_always_trusts(in) ==
  IF static_terms(in).time_until_gc > 0 THEN Request(no_gc, in.C)
  ELSE Request("AllocRate", in.C)

rule_allocation_rate_static(in) ==
  IF ~in.is_time_trustable
  THEN Request(no_gc, in.C)
  ELSE IF static_terms(in).time_until_gc > 0 THEN Request(no_gc, in.C)
       ELSE Request("AllocRate", in.C)

\* the inputs tried: a small heap measured in bytes
AllocInputs ==
  [ is_time_trustable : BOOLEAN,
    soft_max_capacity : { 40 },
    used : { 0, 20, 36, 40 },
    relocation_headroom : { 0, 4 },
    avg : { 0, 4 * Unit },
    sd : { 0, Unit },
    spike : { 2 * Unit },
    serial_davg : { Unit \div 20 },
    serial_dsd : { 0 },
    parallelizable_davg : { (4 * Unit) \div 10, 2 * Unit },
    parallelizable_dsd : { 0, Unit \div 10 },
    last_active_workers : { 1, ConcGCThreads },
    time_since_last : { 0, Unit },
    C : { ConcGCThreads },
    UseDynamicNumberOfGCThreads : BOOLEAN,
    UseNewCode : BOOLEAN,
    one_byte : { Unit } ]

\* scenario 3 of the director: sizes in MB, where 1.0 byte per second is
\* less than one grid step of a rate
Scenario3 ==
  [ is_time_trustable |-> TRUE,
    soft_max_capacity |-> 1200, used |-> 1000, relocation_headroom |-> 0,
    avg |-> 500 * Unit, sd |-> 20 * Unit, spike |-> 2 * Unit,
    serial_davg |-> Unit \div 20, serial_dsd |-> 0,
    parallelizable_davg |-> (4 * Unit) \div 10, parallelizable_dsd |-> 0,
    last_active_workers |-> 4, time_since_last |-> Unit, C |-> 8,
    UseDynamicNumberOfGCThreads |-> TRUE, UseNewCode |-> TRUE, one_byte |-> 0 ]

\* inputs at the edges: no worker was active in the last cycle, and there is
\* no parallelizable work at all
AllocEdgeInputs ==
  { [in EXCEPT !.last_active_workers = 0, !.parallelizable_davg = p] :
      in \in { x \in AllocInputs : /\ x.UseDynamicNumberOfGCThreads /\ x.UseNewCode
                                   /\ x.relocation_headroom = 0
                                   /\ x.last_active_workers = 1
                                   /\ x.parallelizable_davg = 2 * Unit },
      p \in { 0, 2 * Unit } }

\* the inputs the director is run on: dynamic mode
DirectorAllocInputs ==
  { in \in AllocInputs :
      /\ in.UseDynamicNumberOfGCThreads /\ in.is_time_trustable
      /\ in.used \in { 0, 40 } /\ in.relocation_headroom = 0
      /\ in.avg = 4 * Unit /\ in.sd = 0
      /\ in.parallelizable_davg = (4 * Unit) \div 10 /\ in.parallelizable_dsd = 0
      /\ in.time_since_last = Unit /\ in.last_active_workers = ConcGCThreads }

\* What rule_warmup reads: sizes in bytes
WarmupInputs ==
  [ is_warm : BOOLEAN, nwarmup_cycles : 0 .. 2, soft_max_capacity : { 40, 45 },
    used : 0 .. 14 ]
    \cup [ is_warm : { FALSE }, nwarmup_cycles : { 0 }, soft_max_capacity : { 1024 },
           used : { 0, 150 } ]

\* What rule_timer reads: seconds
TimerInputs ==
  [ ZCollectionInterval : { 0, Unit \div 2, Unit, 5 * Unit },
    time_since_last : { 0, Unit \div 2, Unit - 1, Unit, 2 * Unit, 5 * Unit, 300 * Unit } ]

\* What rule_high_usage reads: used may be above the soft limit, and the
\* headroom above what is left
HighUsageInputs ==
  [ soft_max_capacity : { 40 }, used : { 0, 20, 36, 37, 38, 39, 40, 44 },
    relocation_headroom : { 0, 1, 4, 8, 48 } ]
    \cup [ soft_max_capacity : { 1024 }, used : { 0, 980 }, relocation_headroom : { 16 } ]

\* What rule_proactive reads
ProactiveInputs ==
  [ ZProactive : BOOLEAN, is_warm : BOOLEAN,
    used_at_relocate_end : { 0, 10 }, soft_max_capacity : { 40, 45 },
    used : { 0, 3, 4, 5, 14, 36 },
    time_since_last : { 0, 13 * Unit, 52 * Unit, 299 * Unit, 300 * Unit },
    serial_davg : { Unit \div 20 }, serial_dsd : { 0 },
    parallelizable_davg : { (4 * Unit) \div 10, 2 * Unit },
    parallelizable_dsd : { 0 },
    C : { ConcGCThreads } ]

\* the inputs the director is run on: for each rule one on which it asks
\* for a collection and one on which it does not
DirectorWarmupInputs ==
  { in \in WarmupInputs : /\ ~in.is_warm /\ in.nwarmup_cycles = 0
                          /\ in.soft_max_capacity = 40 /\ in.used \in { 0, 4 } }
DirectorTimerInputs ==
  { in \in TimerInputs : in.ZCollectionInterval = Unit /\ in.time_since_last \in { 0, Unit } }
DirectorHighUsageInputs ==
  { in \in HighUsageInputs : /\ in.soft_max_capacity = 40 /\ in.used \in { 0, 40 }
                             /\ in.relocation_headroom = 0 }
DirectorProactiveInputs ==
  { in \in ProactiveInputs : /\ in.ZProactive /\ in.is_warm
                             /\ in.used_at_relocate_end = 0 /\ in.soft_max_capacity = 40
                             /\ in.used = 36 /\ in.time_since_last \in { 0, 300 * Unit }
                             /\ in.parallelizable_davg = 2 * Unit }

\* the heap at rest
IdleEnv ==
  [ stall |-> FALSE,
    warmup |-> CHOOSE in \in DirectorWarmupInputs : in.used = 0,
    timer |-> CHOOSE in \in DirectorTimerInputs : in.time_since_last = 0,
    alloc |-> CHOOSE in \in DirectorAllocInputs : in.used = 0 /\ ~in.UseNewCode,
    high_usage |-> CHOOSE in \in DirectorHighUsageInputs : in.used = 0,
    proactive |-> CHOOSE in \in DirectorProactiveInputs : in.time_since_last = 0 ]

\* What the rules read: whether an allocation stall is recorded, and for
\* each other rule the values it reads from the heap, the statistics and
\* the flags.
Envs == [ stall : BOOLEAN, warmup : DirectorWarmupInputs, timer : DirectorTimerInputs,
          alloc : DirectorAllocInputs, high_usage : DirectorHighUsageInputs,
          proactive : DirectorProactiveInputs ]

rule_allocation_stall(e) ==
  IF ~e.stall THEN Request(no_gc, ConcGCThreads) ELSE Request("AllocStall", ConcGCThreads)

\* soft_max_capacity * (k * 0.1), converted to size_t
tenths_of(soft_max_capacity, k) == (soft_max_capacity * k) \div 10

\* mutant: the threshold is rounded up to a whole byte
used_threshold_of_rounded_up(in) ==
  ((in.soft_max_capacity * (in.nwarmup_cycles + 1)) + 9) \div 10

\* rule_warmup: used_threshold
used_threshold_of(in) == tenths_of(in.soft_max_capacity, in.nwarmup_cycles + 1)

rule_warmup(e) ==
  LET in == e.warmup IN
  IF in.is_warm
  THEN Request(no_gc, ConcGCThreads)
  ELSE IF in.used < used_threshold_of(in)
       THEN Request(no_gc, ConcGCThreads)
       ELSE Request("Warmup", ConcGCThreads)

\* mutant: the rule is not disabled by an interval of zero
timer_disabled_never(in) == FALSE

\* rule_timer: "if (ZCollectionInterval <= 0)"
timer_disabled(in) == in.ZCollectionInterval <= 0

rule_timer(e) ==
  LET in == e.timer IN
  IF timer_disabled(in)
  THEN Request(no_gc, ConcGCThreads)
  ELSE LET time_until_gc == in.ZCollectionInterval - in.time_since_last IN
       IF time_until_gc > 0
       THEN Request(no_gc, ConcGCThreads)
       ELSE Request("Timer", ConcGCThreads)

rule_allocation_rate(e) ==
  IF e.alloc.UseDynamicNumberOfGCThreads
  THEN LET a == rule_allocation_rate_dynamic_orig(e.alloc)
           b == rule_allocation_rate_dynamic(e.alloc)
       IN IF e.alloc.UseNewCode THEN b ELSE a
  ELSE rule_allocation_rate_static(e.alloc)

\* mutant: a collection is asked for below 5% only
high_usage_declines_at_five(free, soft_max_capacity) == free * 100 >= 5 * soft_max_capacity

\* rule_high_usage: "if (free_percent > 5.0)", free_percent being
\* percent_of(free, soft_max_capacity)
high_usage_declines(free, soft_max_capacity) == free * 100 > 5 * soft_max_capacity

rule_high_usage(e) ==
  LET in == e.high_usage
      free == free_of(in)
  IN IF high_usage_declines(free, in.soft_max_capacity)
     THEN Request(no_gc, ConcGCThreads)
     ELSE Request("HighUsage", ConcGCThreads)

\* mutant: the rule looks at the usage only, not at the time since the last cycle
proactive_not_considered_usage_only(in) ==
  in.used < in.used_at_relocate_end + tenths_of(in.soft_max_capacity, 1)

\* rule_proactive: "if (used < used_threshold && time_since_last_gc <
\* time_since_last_gc_threshold)"
proactive_not_considered(in) ==
  LET used_after_last_gc == in.used_at_relocate_end
      used_increase_threshold == tenths_of(in.soft_max_capacity, 1)
      used_threshold == used_after_last_gc + used_increase_threshold
      time_since_last_gc_threshold == 5 * 60 * Unit
  IN in.used < used_threshold /\ in.time_since_last < time_since_last_gc_threshold

rule_proactive(e) ==
  LET in == e.proactive IN
  IF ~in.ZProactive \/ ~in.is_warm
  THEN Request(no_gc, ConcGCThreads)
  ELSE IF proactive_not_considered(in)
       THEN Request(no_gc, ConcGCThreads)
       ELSE LET gc_duration == serial_gc_time_of(in)
                                 + (parallelizable_gc_time_of(in) \div in.C)
                \* (0.50 / 0.01) - 1.0
                acceptable_gc_interval == gc_duration * 49
                time_until_gc == acceptable_gc_interval - in.time_since_last
            IN IF time_until_gc > 0
               THEN Request(no_gc, ConcGCThreads)
               ELSE Request("Proactive", ConcGCThreads)


\* make_gc_decision: rules[], indexed from 0 as in the code
NRules == 6
rules(i, e) ==
  CASE i = 0 -> rule_allocation_stall(e)
    [] i = 1 -> rule_warmup(e)
    [] i = 2 -> rule_timer(e)
    [] i = 3 -> rule_allocation_rate(e)
    [] i = 4 -> rule_high_usage(e)
    [] i = 5 -> rule_proactive(e)

\* mutant: the loop over the rules goes on after a rule has asked for a collection
decision_made_never(req) == FALSE

\* make_gc_decision: "if (request.cause() != GCCause::_no_gc) return request"
decision_made(req) == req.cause # no_gc

\* mutant: the request is sent whatever its cause
should_collect_always(req) == TRUE

\* run_service: "if (request.cause() != GCCause::_no_gc)" before collect()
should_collect(req) == req.cause # no_gc

\* mutant: the decision is made also while the driver is busy
may_decide_always(is_busy) == TRUE

\* run_service: "if (!_driver->is_busy())"
may_decide(is_busy) == ~is_busy

NoTick == [ ticked |-> FALSE, samples |-> 0, is_busy |-> "unread", evaluated |-> {},
            fired |-> {}, collects |-> 0, collected |-> no_gc ]

DirectorIdle ==
  /\ dpc = "off" /\ rule_index = 0 /\ request = Request(no_gc, ConcGCThreads)
  /\ busy = FALSE /\ env = IdleEnv /\ tick = NoTick

DirectorInit ==
  /\ dpc = "wait_for_tick" /\ rule_index = 0 /\ request = Request(no_gc, ConcGCThreads)
  /\ busy = FALSE /\ env \in Envs /\ tick = NoTick

\* _metronome.wait_for_tick() returned true; heap and statistics have moved on
Tick ==
  /\ dpc = "wait_for_tick"
  /\ dpc' = "sample"
  /\ env' \in Envs
  /\ tick' = [NoTick EXCEPT !.ticked = TRUE]
  /\ UNCHANGED << rule_index, request, busy, markVars, callVars >>

\* sample_allocation_rate
SampleAllocationRate ==
  /\ dpc = "sample"
  /\ tick' = [tick EXCEPT !.samples = @ + 1]
  /\ dpc' = "is_busy"
  /\ UNCHANGED << rule_index, request, busy, env, markVars, callVars >>

\* run_service: _driver->is_busy()
IsBusy ==
  /\ dpc = "is_busy"
  /\ tick' = [tick EXCEPT !.is_busy = IF busy THEN "busy" ELSE "free"]
  /\ IF may_decide(busy)
     THEN dpc' = "rules" /\ rule_index' = 0
     ELSE dpc' = "wait_for_tick" /\ UNCHANGED rule_index
  /\ UNCHANGED << request, busy, env, markVars, callVars >>

\* make_gc_decision: one iteration of the loop over rules[]
Rule ==
  /\ dpc = "rules"
  /\ IF rule_index < NRules
     THEN LET req == rules(rule_index, env) IN
          /\ tick' = [tick EXCEPT !.evaluated = @ \cup {rule_index},
                                  !.fired = IF req.cause # no_gc
                                            THEN @ \cup {rule_index} ELSE @]
          /\ IF decision_made(req)
             THEN request' = req /\ dpc' = "decided" /\ UNCHANGED rule_index
             ELSE rule_index' = rule_index + 1 /\ UNCHANGED << request, dpc >>
     ELSE \* return GCCause::_no_gc
          /\ request' = Request(no_gc, ConcGCThreads)
          /\ dpc' = "decided"
          /\ UNCHANGED << rule_index, tick >>
  /\ UNCHANGED << busy, env, markVars, callVars >>

\* run_service: _driver->collect(request) unless the cause is _no_gc
Collect ==
  /\ dpc = "decided"
  /\ IF should_collect(request)
     THEN tick' = [tick EXCEPT !.collects = @ + 1, !.collected = request.cause]
     ELSE UNCHANGED tick
  /\ dpc' = "wait_for_tick"
  /\ UNCHANGED << rule_index, request, busy, env, markVars, callVars >>

\* the driver starts or finishes a collection
DriverBusy ==
  /\ dpc # "terminated"
  /\ busy' = ~busy
  /\ UNCHANGED << dpc, rule_index, request, env, tick, markVars, callVars >>

\* stop_service: _metronome.stop() makes wait_for_tick() return false
StopService ==
  /\ dpc = "wait_for_tick"
  /\ dpc' = "terminated"
  /\ UNCHANGED << rule_index, request, busy, env, tick, markVars, callVars >>

DirectorNext ==
  \/ Tick \/ SampleAllocationRate \/ IsBusy \/ Rule \/ Collect \/ DriverBusy
  \/ StopService

\* the marker at rest while the director is looked at
MarkIdle == MarkInit

NoCall == [fn |-> "none"]

Init == MarkInit /\ DirectorIdle /\ call = NoCall
Next == MarkNext
Spec == Init /\ [][Next]_vars

(******************* the mark cycle with finite work **********************)
\* ZMark::drain when the work that remains is finite.  In a concurrent task
\* every pop finishes a stack and pushes nothing.  In the end pass a stack
\* may hold many entries, no more in all than should_timeout() calls are
\* followed, and nothing is pushed.
FiniteDrain(w) ==
  /\ Drain(w)
  /\ IF task = "End"
     THEN /\ StacksInUse(stripes', stacks') <= StacksInUse(stripes, stacks)
          /\ \/ timeout_expired'
             \/ StacksInUse(stripes', stacks')
                  <= MaxTimeoutCheckCount - timeout_check_count'
     ELSE \/ pc'[w] = "flush"
          \/ StacksInUse(stripes', stacks') < StacksInUse(stripes, stacks)

\* barrier pushes stop once the driver runs a mark task
QuietJavaPush(j) ==
  /\ pcD \in { "mark_roots", "roots_wait", "mark_loop" }
  /\ JavaPush(j)

\* one step of worker w in ZMark::work or ZMarkConcurrentRootsTask::work
WorkerStep(w) ==
  \/ FiniteDrain(w) \/ Flush(w) \/ Signal(w) \/ Steal(w) \/ EnterIdle(w)
  \/ EnterTerminate(w) \/ ExitIdle(w) \/ Free(w) \/ RootsWork(w)

LiveNext ==
  \/ Start \/ RootsStart \/ RootsDone \/ TaskStart \/ TaskDone
  \/ Restart \/ RestartCheck \/ EndBegin \/ FlushAll \/ EndTaskStart
  \/ EndTaskDone \/ EndReturn \/ Continue
  \/ \E w \in WorkerIds : WorkerStep(w)
  \/ \E j \in JavaThreads :
       \/ QuietJavaPush(j) \/ PeriodicFlush(j) \/ HandshakeFlush(j) \/ JavaSignal(j)

\* a worker thread that can take a step takes one: the workers of a task
\* run on threads of their own, and the idle loop sleeps for 1 ms at a time
WorkersFair == \A w \in WorkerIds : WF_vars(WorkerStep(w))

SpecLive == Init /\ [][LiveNext]_vars /\ WorkersFair

InitDirector == DirectorInit /\ MarkIdle /\ call = NoCall
SpecDirector == InitDirector /\ [][DirectorNext]_vars

(***************************** object arrays ******************************)
align_up(x, a) == ((x + a - 1) \div a) * a
align_down(x, a) == (x \div a) * a
is_aligned(x, a) == x % a = 0

\* ZMarkStackEntry(offset, length, finalizable) as push_partial_array builds it
partial_array_entry(addr, size) ==
  [offset |-> addr \div ZMarkPartialArrayMinSize, length |-> size \div oopSize,
   aligned |-> is_aligned(addr, ZMarkPartialArrayMinSize)]

\* mutant: a third of what is left is pushed each time, not a half
RECURSIVE push_middle_parts_thirds(_, _)
push_middle_parts_thirds(partial_addr, middle_start) ==
  IF partial_addr > middle_start
  THEN LET partial_size == align_up((partial_addr - middle_start) \div 3,
                                    ZMarkPartialArrayMinSize)
       IN << partial_array_entry(partial_addr - partial_size, partial_size) >>
            \o push_middle_parts_thirds(partial_addr - partial_size, middle_start)
  ELSE << >>

\* follow_large_array: the loop "Push aligned middle part(s)"; the entries
\* pushed, in the order of the pushes
RECURSIVE push_middle_parts(_, _)
push_middle_parts(partial_addr, middle_start) ==
  IF partial_addr > middle_start
  THEN LET partial_size == align_up((partial_addr - middle_start) \div 2,
                                    ZMarkPartialArrayMinSize)
       IN << partial_array_entry(partial_addr - partial_size, partial_size) >>
            \o push_middle_parts(partial_addr - partial_size, middle_start)
  ELSE << >>

\* mutant: the middle starts at the aligned start itself
middle_start_of_no_plus_one(start) == align_up(start, ZMarkPartialArrayMinSize)

\* follow_large_array: middle_start
middle_start_of(start) == align_up(start + 1, ZMarkPartialArrayMinSize)

\* follow_large_array: the entries pushed and the leading range followed
follow_large_array(addr, size) ==
  LET start == addr
      end == start + size
      middle_start == middle_start_of(start)
      middle_size == align_down(end - middle_start, ZMarkPartialArrayMinSize)
      middle_end == middle_start + middle_size
      trailing == IF end > middle_end
                  THEN << partial_array_entry(middle_end, end - middle_end) >>
                  ELSE << >>
  IN [ pushed |-> trailing \o push_middle_parts(middle_end, middle_start),
       addr |-> start, size |-> middle_start - start, large |-> TRUE ]

\* follow_small_array: the range handed to mark_barrier_on_oop_array
follow_small_array(addr, size) ==
  [ pushed |-> << >>, addr |-> addr, size |-> (size \div oopSize) * oopSize,
    large |-> FALSE ]

\* follow_array
follow_array(addr, size) ==
  IF size <= ZMarkPartialArrayMinSize
  THEN follow_small_array(addr, size)
  ELSE follow_large_array(addr, size)

\* follow_partial_array: address and size decoded from the entry
follow_partial_array(entry) ==
  follow_array(entry.offset * ZMarkPartialArrayMinSize, entry.length * oopSize)

\* the reference slots of [addr, addr + size)
Slots(addr, size) == { a \in addr .. (addr + size - 1) : (a - addr) % oopSize = 0 }

\* what a follow step does to the record of the array being followed
Followed(c, f) ==
  [c EXCEPT !.stack = @ \o f.pushed,
            !.scanned = @ \cup Slots(f.addr, f.size),
            !.twice = @ \cup (c.scanned \cap Slots(f.addr, f.size)),
            !.last = [addr |-> f.addr, size |-> f.size, large |-> f.large,
                      pushed |-> f.pushed]]

\* follow_array_object -> follow_array on an object array larger than
\* ZMarkPartialArrayMinSize
FollowArrayObject ==
  \E addr \in { oopSize * i : i \in 0 .. ((2 * ZMarkPartialArrayMinSize) \div oopSize) } :
    \E size \in { oopSize * i : i \in 1 .. ((MaxArrayParts * ZMarkPartialArrayMinSize)
                                            \div oopSize) } :
      /\ size > ZMarkPartialArrayMinSize
      /\ call' = Followed([fn |-> "follow_array", addr |-> addr, size |-> size,
                           stack |-> << >>, scanned |-> {}, twice |-> {},
                           last |-> << >>, npops |-> 0],
                          follow_array(addr, size))
      /\ UNCHANGED << markVars, directorVars >>

\* a partial array entry is popped: mark_and_follow -> follow_partial_array
FollowPartialArray ==
  /\ call.fn = "follow_array"
  /\ call.stack # << >>
  /\ LET n == Len(call.stack) IN
     call' = Followed([call EXCEPT !.stack = SubSeq(@, 1, n - 1), !.npops = @ + 1],
                      follow_partial_array(call.stack[n]))
  /\ UNCHANGED << markVars, directorVars >>

ArrayNext == FollowArrayObject \/ FollowPartialArray

InitArray == MarkInit /\ DirectorIdle /\ call = NoCall
SpecArray == InitArray /\ [][ArrayNext]_vars

(************************ stripes and affinity ****************************)
\* prepare_mark for a pool of w workers
PrepareMark ==
  /\ \E w \in 1 .. MaxAffinityWorkers : prepare_mark(w)
  /\ call' = [fn |-> "prepare_mark"]
  /\ UNCHANGED << stripes, termState, stacks, published, pcD, pc, javaCtl, task, victim,
                  endContext, last_op, directorVars >>

\* ZMarkStripeSet::set_nstripes with any power of two up to the worker count
SetNstripes ==
  /\ \E w \in 1 .. MaxAffinityWorkers :
       \E n \in { 2 ^ k : k \in 0 .. 5 } :
         /\ n <= w
         /\ nworkers' = w
         /\ nstripes' = n
  /\ call' = [fn |-> "set_nstripes"]
  /\ UNCHANGED << nrestart, ncomplete, ncontinue, stripes, termState, stacks, published,
                  pcD, pc, javaCtl, task, victim, endContext, last_op, directorVars >>

\* ZMarkAffinity::set_default_affinity for one worker of the pool
SetDefaultAffinity ==
  /\ nworkers >= 1
  /\ \E worker_id \in 0 .. (nworkers - 1) :
       call' = [fn |-> "set_default_affinity", worker_id |-> worker_id,
                index |-> home_stripe(nworkers, worker_id)]
  /\ UNCHANGED << markVars, directorVars >>

AffinityNext == PrepareMark \/ SetNstripes \/ SetDefaultAffinity

(************************ allocation rate rules ***************************)
\* one of the allocation rate rules is called on an input
CallRuleAllocationRate ==
  \E in \in AllocInputs \cup { Scenario3, [Scenario3 EXCEPT !.UseNewCode = FALSE] } :
    /\ call = NoCall
    /\ call' = [fn |-> "rule_allocation_rate", in |-> in,
                request |-> rule_allocation_rate([alloc |-> in])]
    /\ UNCHANGED << markVars, directorVars >>

CallRuleAllocationRateStatic ==
  \E in \in AllocInputs :
    /\ call = NoCall
    /\ call' = [fn |-> "rule_allocation_rate_static", in |-> in,
                request |-> rule_allocation_rate_static(in)]
    /\ UNCHANGED << markVars, directorVars >>

CallRuleAllocationRateDynamic ==
  \E in \in AllocInputs \cup AllocEdgeInputs \cup { Scenario3 } :
    /\ call = NoCall
    /\ call' = [fn |-> "rule_allocation_rate_dynamic", in |-> in,
                request |-> rule_allocation_rate_dynamic(in)]
    /\ UNCHANGED << markVars, directorVars >>

CallRuleAllocationRateDynamicOrig ==
  \E in \in AllocInputs \cup { Scenario3 } :
    /\ call = NoCall
    /\ call' = [fn |-> "rule_allocation_rate_dynamic_orig", in |-> in,
                request |-> rule_allocation_rate_dynamic_orig(in)]
    /\ UNCHANGED << markVars, directorVars >>

(****************** warmup, timer, high usage, proactive *******************)
\* one of the rules is called on an input
CallRuleWarmup ==
  \E in \in WarmupInputs :
    /\ call = NoCall
    /\ call' = [fn |-> "rule_warmup", in |-> in, request |-> rule_warmup([warmup |-> in])]
    /\ UNCHANGED << markVars, directorVars >>

CallRuleTimer ==
  \E in \in TimerInputs :
    /\ call = NoCall
    /\ call' = [fn |-> "rule_timer", in |-> in, request |-> rule_timer([timer |-> in])]
    /\ UNCHANGED << markVars, directorVars >>

CallRuleHighUsage ==
  \E in \in HighUsageInputs :
    /\ call = NoCall
    /\ call' = [fn |-> "rule_high_usage", in |-> in,
                request |-> rule_high_usage([high_usage |-> in])]
    /\ UNCHANGED << markVars, directorVars >>

CallRuleProactive ==
  \E in \in ProactiveInputs :
    /\ call = NoCall
    /\ call' = [fn |-> "rule_proactive", in |-> in,
                request |-> rule_proactive([proactive |-> in])]
    /\ UNCHANGED << markVars, directorVars >>

RulesNext == CallRuleWarmup \/ CallRuleTimer \/ CallRuleHighUsage \/ CallRuleProactive

InitRules == MarkInit /\ DirectorIdle /\ call = NoCall
SpecRules == InitRules /\ [][RulesNext]_vars

AllocRateNext ==
  \/ CallRuleAllocationRate \/ CallRuleAllocationRateStatic
  \/ CallRuleAllocationRateDynamic \/ CallRuleAllocationRateDynamicOrig

InitAllocRate == MarkInit /\ DirectorIdle /\ call = NoCall
SpecAllocRate == InitAllocRate /\ [][AllocRateNext]_vars

InitAffinity == MarkInit /\ DirectorIdle /\ call = NoCall
SpecAffinity == InitAffinity /\ [][AffinityNext]_vars


(***************** enter_idle_mode as a loop of cmpxchg ********************)
\* writes of other threads to _state followed during one call
MaxOtherWrites == 2

\* the words _state can hold while the caller, a worker that is not idle, is
\* counted in nactive_workers
ActiveWords == [n : 1 .. MaxWorkers, s : SUBSET StripeIds]

StripeMaps == (SUBSET StripeIds) \ { {} }

\* ZMarkTerminate::enter_idle_mode is entered: load_acquire of _state
CallEnterIdleMode ==
  \E word \in ActiveWords, map \in StripeMaps :
    /\ call = NoCall
    /\ call' = [fn |-> "enter_idle_mode", pc |-> "cmpxchg", map |-> map,
                state |-> word, old_state |-> word, first |-> word,
                writes |-> 0, ret |-> FALSE]
    /\ UNCHANGED << markVars, directorVars >>

\* another thread writes _state before the caller's cmpxchg: a
\* set_active_stripes, or the enter_idle_mode or exit_idle_mode of another
\* worker
OtherThreadWrites ==
  /\ call.fn = "enter_idle_mode" /\ call.pc = "cmpxchg"
  /\ call.writes < MaxOtherWrites
  /\ \E map \in StripeMaps :
       \E r \in { set_active_stripes(call.state.n, call.state.s, map),
                  enter_idle_mode(call.state.n, call.state.s, map),
                  exit_idle_mode(call.state.n, call.state.s, map) } :
         /\ [n |-> r.n, s |-> r.s] \in ActiveWords \ { call.state }
         /\ call' = [call EXCEPT !.state = [n |-> r.n, s |-> r.s],
                                 !.writes = @ + 1]
  /\ UNCHANGED << markVars, directorVars >>

\* one iteration of the loop of enter_idle_mode: the new word is computed
\* from old_state and Atomic::cmpxchg(&_state, old_state, new_state) is tried
Cmpxchg ==
  /\ call.fn = "enter_idle_mode" /\ call.pc = "cmpxchg"
  /\ LET r == enter_idle_mode(call.old_state.n, call.old_state.s, call.map)
     IN IF call.state = call.old_state
        THEN \* Success
             call' = [call EXCEPT !.state = [n |-> r.n, s |-> r.s],
                                  !.pc = "done", !.ret = r.ret]
        ELSE \* Retry: old_state = prev_state
             call' = [call EXCEPT !.old_state = call.state]
  /\ UNCHANGED << markVars, directorVars >>

EnterIdleNext == CallEnterIdleMode \/ OtherThreadWrites \/ Cmpxchg

InitEnterIdle == MarkInit /\ DirectorIdle /\ call = NoCall
SpecEnterIdle == InitEnterIdle /\ [][EnterIdleNext]_vars

(************************* Context::should_timeout *************************)
\* should_timeout() calls followed on one context
MaxShouldTimeoutCalls == 300

\* ZMarkEndContext::ZMarkEndContext
NewEndContext ==
  [timeout_check_count |-> 0, timeout_check_at |-> timeout_check_interval,
   timeout_expired |-> FALSE]

\* mutant: the clock is read on every call
end_should_timeout_reads_clock_always(ctx, late) ==
  [ctx |-> [ctx EXCEPT !.timeout_check_count = @ + 1,
                       !.timeout_expired = @ \/ late],
   consulted |-> TRUE, ret |-> ctx.timeout_expired \/ late]

\* ZMarkEndContext::should_timeout; late: os::elapsed_counter() >= _timeout_end.
\* The new fields, whether the clock was read, and the value returned.
end_should_timeout(ctx, late) ==
  LET count == ctx.timeout_check_count + 1
      consult == (count = ctx.timeout_check_at)
      expired == IF consult /\ late THEN TRUE ELSE ctx.timeout_expired
      check_at == IF consult /\ ~late
                  THEN ctx.timeout_check_at + timeout_check_interval
                  ELSE ctx.timeout_check_at
  IN [ctx |-> [timeout_check_count |-> count, timeout_check_at |-> check_at,
               timeout_expired |-> expired],
      consulted |-> consult, ret |-> expired]

\* ZMarkContext::should_timeout
concurrent_should_timeout == FALSE

\* Context context; in ZMark::work
ConstructContext ==
  \E context \in { "Concurrent", "End" } :
    /\ call = NoCall
    /\ call' = [fn |-> "should_timeout", context |-> context, ctx |-> NewEndContext,
                ncalls |-> 0, late |-> FALSE, consulted |-> FALSE,
                ret |-> FALSE, returned_before |-> FALSE]
    /\ UNCHANGED << markVars, directorVars >>

\* time passes: os::elapsed_counter() reaches _timeout_end
DeadlinePasses ==
  /\ call.fn = "should_timeout" /\ ~call.late
  /\ call' = [call EXCEPT !.late = TRUE]
  /\ UNCHANGED << markVars, directorVars >>

\* context->should_timeout() in ZMark::drain
CallShouldTimeout ==
  /\ call.fn = "should_timeout"
  /\ call.ncalls < MaxShouldTimeoutCalls
  /\ IF call.context = "End"
     THEN LET r == end_should_timeout(call.ctx, call.late)
          IN call' = [call EXCEPT !.ctx = r.ctx, !.ncalls = @ + 1,
                                  !.consulted = r.consulted, !.ret = r.ret,
                                  !.returned_before = call.ret]
     ELSE call' = [call EXCEPT !.ncalls = @ + 1, !.consulted = FALSE,
                               !.ret = concurrent_should_timeout,
                               !.returned_before = call.ret]
  /\ UNCHANGED << markVars, directorVars >>

TimeoutNext == ConstructContext \/ DeadlinePasses \/ CallShouldTimeout

InitTimeout == MarkInit /\ DirectorIdle /\ call = NoCall
SpecTimeout == InitTimeout /\ [][TimeoutNext]_vars

(******************************* ZMark::steal ******************************)
\* largest number of stripes steal() is called with
MaxStealStripes == 4

NoVictim == 0 - 1

\* mutant: steal_stack() is tried on every victim, in the map or not
RECURSIVE steal_walk_ignores_map(_, _, _, _)
steal_walk_ignores_map(vstripe, home_id, map, full) ==
  IF vstripe = home_id
  THEN [ret |-> FALSE, from |-> NoVictim, visited |-> << >>, tried |-> << >>]
  ELSE IF vstripe \in full
  THEN [ret |-> TRUE, from |-> vstripe, visited |-> << vstripe >>,
        tried |-> << vstripe >>]
  ELSE LET rest == steal_walk_ignores_map(stripe_next(vstripe), home_id, map, full)
       IN [rest EXCEPT !.visited = << vstripe >> \o @, !.tried = << vstripe >> \o @]

\* ZMark::steal, the loop from the victim vstripe on: the stripes looked at,
\* those on which steal_stack() was called, and the stripe a stack was taken
\* from.  full: the stripes whose list holds a stack.
RECURSIVE steal_walk(_, _, _, _)
steal_walk(vstripe, home_id, map, full) ==
  IF vstripe = home_id
  THEN \* Nothing to steal
       [ret |-> FALSE, from |-> NoVictim, visited |-> << >>, tried |-> << >>]
  ELSE IF vstripe \in map /\ vstripe \in full
  THEN \* Success
       [ret |-> TRUE, from |-> vstripe, visited |-> << vstripe >>,
        tried |-> << vstripe >>]
  ELSE \* Failed, try next stripe
       LET rest == steal_walk(stripe_next(vstripe), home_id, map, full)
       IN [rest EXCEPT !.visited = << vstripe >> \o @,
                       !.tried = IF vstripe \in map THEN << vstripe >> \o @ ELSE @]

\* ZMark::steal(stripe, stacks, map) called by a worker whose local stacks
\* are empty: what it returns, the lists and the worker's stacks afterwards
CallSteal ==
  /\ call.fn \in { "none", "set_nstripes" }
  /\ nstripes <= MaxStealStripes
  /\ \E home_id \in stripe_map, map \in SUBSET stripe_map, full \in SUBSET stripe_map :
       LET r == steal_walk(stripe_next(home_id), home_id, map, full)
       IN call' = [fn |-> "steal", home |-> home_id, map |-> map, full |-> full,
                   ret |-> r.ret, from |-> r.from, visited |-> r.visited,
                   tried |-> r.tried,
                   full_after |-> IF r.ret THEN full \ { r.from } ELSE full,
                   stacks_after |-> IF r.ret THEN { home_id } ELSE {}]
  /\ UNCHANGED << markVars, directorVars >>

StealNext == SetNstripes \/ CallSteal

InitSteal == MarkInit /\ DirectorIdle /\ call = NoCall
SpecSteal == InitSteal /\ [][StealNext]_vars

(************************** ZMark::mark_and_follow *************************)
\* a mark stack entry's flags, and what is known of the object it names:
\* whether it is an object array, whether its page is allocating, and what
\* page->mark_object would say (success, inc_live)
EntryFlags == [partial_array : BOOLEAN, finalizable : BOOLEAN, follow : BOOLEAN]
ObjectsMet ==
  { o \in [kind : { "instance", "typeArray", "objArray" }, large : BOOLEAN,
           allocating : BOOLEAN, mark_success : BOOLEAN, inc_live : BOOLEAN] :
      /\ o.inc_live => o.mark_success
      /\ o.large => o.kind = "objArray" }

\* ZMark::is_array
is_array(obj) == obj.kind = "objArray"

\* ZMark::try_mark_object: its result, and whether the page's live bytes grow
try_mark_object(obj) ==
  IF obj.allocating
  THEN \* Newly allocated objects are implicitly marked
       [success |-> FALSE, inc_live |-> FALSE]
  ELSE [success |-> obj.mark_success, inc_live |-> obj.inc_live]

\* the follow function called and its finalizable argument
FollowCall(what, finalizable) == [what |-> what, finalizable |-> finalizable]

\* mutant: an object array is followed whatever the entry's follow flag says
mark_and_follow_array_always(entry, obj) ==
  IF entry.partial_array THEN FollowCall("follow_partial_array", entry.finalizable)
  ELSE IF ~try_mark_object(obj).success THEN FollowCall("nothing", entry.finalizable)
  ELSE IF is_array(obj) THEN FollowCall("follow_array_object", entry.finalizable)
  ELSE FollowCall("follow_object", entry.finalizable)

\* ZMark::mark_and_follow: which of the follow functions is called, and with
\* which finalizable
mark_and_follow(entry, obj) ==
  IF entry.partial_array
  THEN FollowCall("follow_partial_array", entry.finalizable)
  ELSE IF ~try_mark_object(obj).success
  THEN \* Already marked
       FollowCall("nothing", entry.finalizable)
  ELSE IF is_array(obj)
  THEN IF entry.follow
       THEN FollowCall("follow_array_object", entry.finalizable)
       ELSE FollowCall("nothing", entry.finalizable)
  ELSE FollowCall("follow_object", entry.finalizable)

\* mark_and_follow(cache, entry) in ZMark::drain
CallMarkAndFollow ==
  \E entry \in EntryFlags, obj \in ObjectsMet :
    /\ call = NoCall
    /\ call' = [fn |-> "mark_and_follow", entry |-> entry, obj |-> obj,
                marked |-> ~entry.partial_array /\ try_mark_object(obj).success,
                inc_live |-> ~entry.partial_array /\ try_mark_object(obj).inc_live,
                followed |-> mark_and_follow(entry, obj)]
    /\ UNCHANGED << markVars, directorVars >>

MarkAndFollowNext == CallMarkAndFollow

InitMarkAndFollow == MarkInit /\ DirectorIdle /\ call = NoCall
SpecMarkAndFollow == InitMarkAndFollow /\ [][MarkAndFollowNext]_vars

(******************** follow_large_array's middle parts ********************)
\* largest aligned middle range, in multiples of ZMarkPartialArrayMinSize
MaxMiddleParts == 12

\* follow_large_array: the loop "Push aligned middle part(s)" on the middle
\* range [middle_start, middle_start + m * ZMarkPartialArrayMinSize)
CallPushMiddleParts ==
  \E k \in 0 .. MaxMiddleParts, m \in 1 .. MaxMiddleParts :
    LET middle_start == k * ZMarkPartialArrayMinSize
        middle_end == middle_start + m * ZMarkPartialArrayMinSize
    IN /\ call = NoCall
       /\ call' = [fn |-> "push_middle_parts", middle_start |-> middle_start,
                   middle_end |-> middle_end, m |-> m,
                   pushed |-> push_middle_parts(middle_end, middle_start)]
       /\ UNCHANGED << markVars, directorVars >>

MiddlePartsNext == CallPushMiddleParts

InitMiddleParts == MarkInit /\ DirectorIdle /\ call = NoCall
SpecMiddleParts == InitMiddleParts /\ [][MiddlePartsNext]_vars

(****************************** claims ************************************)
\* ZMark::verify_all_stacks_empty: what the guarantees of ZVerifyMarking ask
all_stacks_empty == stripes_is_empty /\ \A t \in Threads : stacks[t] = {}

\* ZMark::verify_termination: what the guarantee of ZVerifyMarking asks
termination_verified == has_active_stripes # stripes_is_empty

\* C1: whenever end() has returned true, every stripe's overflow list is empty
\* and every thread's local mark stacks are empty, on every exit path of the
\* serial end pass (termination or timeout).
C1_EndTrueAllStacksEmpty == pcD = "ended" => all_stacks_empty

\* C2: if the serial end pass stopped because should_timeout() returned true,
\* complete() returns false, end() returns false and _ncontinue is incremented
\* by one.
C2_TimeoutEndReturnsFalse ==
  [][ (pcD = "complete_verify3" /\ task = "End" /\ timeout_expired)
        => (pcD' = "continue" /\ ncontinue' = ncontinue + 1) ]_vars

\* C3: at each of the three verification points of complete(),
\* has_active_stripes() is true exactly when some stripe's overflow list is
\* non-empty.
C3_TerminationStateMatchesStripes ==
  pcD \in { "complete_verify1", "complete_verify2", "complete_verify3" }
    => termination_verified

\* workers of the task in progress, and those of them in idle mode
RunningWorkers == IF task = "End" THEN {0} ELSE TaskWorkers
IdlePcs == { "idle_terminate", "idle_exit" }
InTask == pcD \in { "task_wait", "end_wait" }
ResetStep == /\ pcD \in { "mark_loop", "complete_verify2" }
             /\ pcD' \in { "task_wait", "end_wait" }

\* C4: nactive_workers becomes the TERMINATE sentinel only by the successful
\* CAS of enter_terminate_mode, whose expected old word is (0, 0).
C4_TerminateOnlyByEnterTerminateMode ==
  [][ (state_nactive_workers # terminate /\ state_nactive_workers' = terminate)
        => /\ state_nactive_workers = 0 /\ state_active_stripes = {}
           /\ \E w \in WorkerIds : pc[w] = "idle_terminate" /\ pc'[w] = "free"
           /\ last_op'.op = "enter_terminate_mode" ]_vars

C4_Witness ==
  /\ state_nactive_workers = terminate
  /\ last_op = [op |-> "enter_terminate_mode", n |-> 0, s |-> {}, ret |-> TRUE]

\* C5 as claimed: every enter_terminate_mode that returns true read
\* active_stripes == 0 and nactive_workers == 0.
C5_TerminateTrueOnlyFromCleared ==
  (last_op.op = "enter_terminate_mode" /\ last_op.ret)
    => (last_op.n = 0 /\ last_op.s = {})

\* C5 as amended: enter_terminate_mode returns true only when the word it read
\* is (0, 0), which it then replaces by TERMINATE, or when nactive_workers is
\* already TERMINATE, whatever active_stripes holds.
C5_TerminateTrueFromClearedOrTerminate ==
  (last_op.op = "enter_terminate_mode" /\ last_op.ret)
    => \/ last_op.n = 0 /\ last_op.s = {}
       \/ last_op.n = terminate

C5_Witness ==
  /\ last_op.op = "enter_terminate_mode" /\ last_op.ret
  /\ last_op.n = terminate /\ last_op.s # {}

\* C6 as claimed: within a cycle, once the state is TERMINATE the word never
\* changes, neither through set_active_stripes nor through reset.
C6_TerminateNeverChanges ==
  [][ (state_nactive_workers = terminate /\ pcD \notin { "init", "ended" })
        => /\ state_nactive_workers' = state_nactive_workers
           /\ state_active_stripes' = state_active_stripes ]_vars

\* C6 as amended: once nactive_workers is TERMINATE it stays TERMINATE until
\* the reset(nworkers) of the next ZMarkTask; until then the only change of
\* the word is set_active_stripes adding stripe bits.
C6_TerminateUntilReset ==
  [][ state_nactive_workers = terminate
        => \/ /\ state_nactive_workers' = terminate
              /\ state_active_stripes \subseteq state_active_stripes'
           \/ /\ ResetStep
              /\ state_nactive_workers' = (IF pcD = "mark_loop" THEN nworkers ELSE 1)
              /\ state_active_stripes' = {} ]_vars

C6_Witness ==
  /\ InTask
  /\ state_nactive_workers = terminate
  /\ state_active_stripes # {}
  /\ \E w \in RunningWorkers : pc[w] \in IdlePcs

\* C7: no worker exits idle into TERMINATE: with nactive_workers TERMINATE,
\* exit_idle_mode returns false and leaves the word alone, nactive_workers is
\* never incremented, and no idle() call returns false.
C7_NoExitIdleIntoTerminate ==
  [][ state_nactive_workers = terminate
        => /\ \A w \in WorkerIds :
                (pc[w] = "idle_exit" /\ pc'[w] # "idle_exit")
                  => /\ pc'[w] = "idle_terminate"
                     /\ last_op'.ret = FALSE
                     /\ state_nactive_workers' = state_nactive_workers
                     /\ state_active_stripes' = state_active_stripes
           /\ state_nactive_workers' # terminate + 1
           /\ \A w \in WorkerIds : pc[w] \in IdlePcs => pc'[w] # "drain" ]_vars

C7_Witness ==
  /\ last_op.op = "exit_idle_mode" /\ last_op.ret = FALSE
  /\ last_op.n = terminate /\ last_op.s # {}

\* C8: in a mark task started with reset(n) and run by n workers, while the
\* state is not TERMINATE, nactive_workers is the number of workers that are
\* not in idle mode; the counter is never decremented at 0.
C8_NactiveCountsNonIdleWorkers ==
  /\ (InTask /\ state_nactive_workers # terminate)
       => state_nactive_workers =
            Cardinality({ w \in RunningWorkers : pc[w] \notin IdlePcs })
  /\ (last_op.op = "enter_idle_mode" /\ last_op.ret) => last_op.n >= 1

C8_Witness ==
  /\ pcD = "task_wait" /\ nworkers = 2
  /\ state_nactive_workers = 1
  /\ last_op.op = "exit_idle_mode" /\ last_op.ret
  /\ \E w \in RunningWorkers : pc[w] \in IdlePcs

\* the tick the director began last has run to its end
TickDone == tick.ticked /\ dpc \in {"wait_for_tick", "terminated"}

\* C9: on each tick collect() is called at most once; it is called exactly
\* when is_busy() returned false and some rule returned a cause other than
\* _no_gc; and the request it is given never has cause _no_gc.
C9_CollectOncePerTick ==
  /\ tick.collects <= 1
  /\ TickDone => (tick.collects = 1 <=> (tick.is_busy = "free" /\ tick.fired # {}))
  /\ tick.collects > 0 => tick.collected # no_gc

\* a tick ended in which the driver was free, a rule fired and collect() was called
C9_Witness ==
  TickDone /\ tick.is_busy = "free" /\ tick.fired # {} /\ tick.collects = 1

\* C10: on every tick the allocation rate is sampled exactly once, before
\* is_busy() is read and before any rule is evaluated, on busy ticks too; and
\* on a tick where is_busy() returned true no rule is evaluated and no
\* request is sent.
C10_SampleOnceAndBusySkips ==
  /\ tick.samples <= 1
  /\ (tick.is_busy # "unread" \/ tick.evaluated # {}) => tick.samples = 1
  /\ TickDone => tick.samples = 1
  /\ tick.is_busy = "busy" => (tick.evaluated = {} /\ tick.collects = 0)

\* a tick ended on which the driver was busy while a rule would have fired:
\* the sample was taken, no rule was evaluated
C10_Witness ==
  /\ TickDone /\ tick.is_busy = "busy" /\ tick.samples = 1
  /\ \E i \in 0 .. (NRules - 1) : rules(i, env).cause # no_gc

\* the causes in the order the claim gives, and whether the conditions of
\* the rule for each hold on this tick
CauseOrder == << "AllocStall", "Warmup", "Timer", "AllocRate", "HighUsage", "Proactive" >>
CauseDue == << env.stall, rule_warmup(env).cause # no_gc, rule_timer(env).cause # no_gc,
               rule_allocation_rate(env).cause # no_gc,
               rule_high_usage(env).cause # no_gc, rule_proactive(env).cause # no_gc >>

\* C11: make_gc_decision evaluates the rules in the order allocation stall,
\* warmup, timer, allocation rate, high usage, proactive and returns the
\* request of the first rule whose cause is not _no_gc; no later rule is
\* evaluated; the result is _no_gc only if all six return _no_gc; with a
\* recorded allocation stall the cause is AllocStall whatever else holds.
C11_FirstFiringRuleWins ==
  dpc = "decided" =>
    LET due == { k \in 1 .. 6 : CauseDue[k] } IN
    /\ IF due = {}
       THEN request.cause = no_gc /\ tick.evaluated = 0 .. 5
       ELSE LET k == CHOOSE x \in due : \A y \in due : x <= y IN
            /\ request.cause = CauseOrder[k]
            /\ tick.evaluated = 0 .. (k - 1)
            /\ tick.fired = {k - 1}
    /\ env.stall => request.cause = "AllocStall"

\* the decision is a stall although every later rule would fire too
C11_Witness ==
  /\ dpc = "decided" /\ request.cause = "AllocStall" /\ tick.evaluated = {0}
  /\ \A i \in 1 .. (NRules - 1) : rules(i, env).cause # no_gc

\* the driver is inside mark()
InMark == pcD \in { "mark_roots", "roots_wait", "mark_loop", "task_wait", "restart",
                    "restart_hs" }

\* C12: _nrestart <= ZMarkRestartMax * (_ncontinue + 1) always; at the limit
\* restart() returns false and flushes nothing; it returns true, adding
\* exactly one to _nrestart, only below the limit and with
\* has_active_stripes() true after the handshake flush; so within one call of
\* mark() (where _ncontinue is fixed) every further pass costs one restart
\* and the number of passes is bounded.
C12_RestartBounded ==
  [][ /\ nrestart' <= ZMarkRestartMax * (ncontinue' + 1)
      /\ (pcD = "restart" /\ pcD' # "restart") =>
           IF nrestart = ZMarkRestartMax * (ncontinue + 1)
           THEN /\ pcD' = "marked" /\ nrestart' = nrestart
                /\ handshake' = handshake /\ pcJ' = pcJ
                /\ stacks' = stacks /\ stripes' = stripes
                /\ state_active_stripes' = state_active_stripes
           ELSE pcD' = "restart_hs" /\ handshake' = JavaThreads /\ nrestart' = nrestart
      /\ (pcD = "restart_hs" /\ pcD' # "restart_hs") =>
           /\ handshake = {}
           /\ IF has_active_stripes
              THEN pcD' = "mark_loop" /\ nrestart' = nrestart + 1
              ELSE pcD' = "marked" /\ nrestart' = nrestart
      /\ (InMark /\ pcD' = "mark_loop" /\ pcD \notin { "roots_wait", "mark_loop" }) =>
           nrestart' = nrestart + 1
      /\ (InMark /\ pcD' # "mark_roots") =>
           (ncontinue' = ncontinue /\ nrestart' \in { nrestart, nrestart + 1 }) ]_vars

\* restart() has returned false at the limit, after an earlier restart, with
\* stripes still flagged active
C12_Witness ==
  /\ pcD = "marked" /\ nrestart > 0
  /\ nrestart = ZMarkRestartMax * (ncontinue + 1)
  /\ has_active_stripes

\* C17: when the allocation rate rule returns _no_gc and the high usage or
\* the proactive rule fires on the same tick, the request given to
\* collect() carries the worker count the allocation rate rule recommended.
C17_LaterRuleCarriesAllocRateWorkers ==
  (/\ dpc = "decided" /\ 3 \in tick.evaluated
   /\ rule_allocation_rate(env).cause = no_gc
   /\ request.cause \in { "HighUsage", "Proactive" })
    => request.nworkers = rule_allocation_rate(env).nworkers

IsPowerOf2(n) == \E k \in 0 .. 30 : n = 2 ^ k

\* C13: after prepare_mark with W >= 1 workers the number of stripes N is a
\* power of two, 1 <= N <= ZMarkStripesMax, N <= W, and N is the largest
\* power of two not above W whenever that power is at most ZMarkStripesMax.
C13_NstripesPowerOfTwo ==
  call.fn = "prepare_mark" =>
    /\ IsPowerOf2(nstripes)
    /\ 1 <= nstripes /\ nstripes <= ZMarkStripesMax
    /\ nstripes <= nworkers
    /\ \A p \in 1 .. nworkers :
         (IsPowerOf2(p) /\ 2 * p > nworkers /\ p <= ZMarkStripesMax) => nstripes = p

\* prepare_mark with more workers than twice the cap: the cap decides
C13_Witness ==
  /\ call.fn = "prepare_mark" /\ nworkers > 2 * ZMarkStripesMax
  /\ nstripes = ZMarkStripesMax

\* C14: for W >= 1, a power of two N <= W and worker_id < W the home stripe
\* index lies in [0, N), and every stripe is the home stripe of at least
\* floor(W / N) of the workers below the spillover limit (W / N) * N.
C14_AffinityInRangeAndBalanced ==
  (nworkers >= 1 /\ IsPowerOf2(nstripes) /\ nstripes <= nworkers) =>
    /\ call.fn = "set_default_affinity" => (0 <= call.index /\ call.index < nstripes)
    /\ \A id \in 0 .. (nworkers - 1) :
         0 <= home_stripe(nworkers, id) /\ home_stripe(nworkers, id) < nstripes
    /\ \A s \in 0 .. (nstripes - 1) :
         Cardinality({ id \in 0 .. ((nworkers \div nstripes) * nstripes - 1) :
                         home_stripe(nworkers, id) = s }) >= nworkers \div nstripes

\* a spillover worker has been given its home stripe: 7 workers, 4 stripes,
\* worker 6 is the third of three spillover workers
C14_Witness ==
  /\ nworkers = 7 /\ nstripes = 4
  /\ call = [fn |-> "set_default_affinity", worker_id |-> 6, index |-> 2]

\* bytes held by the partial array entries of a stack
RECURSIVE StackBytes(_)
StackBytes(st) == IF st = << >> THEN 0
                  ELSE Head(st).length * oopSize + StackBytes(Tail(st))

\* the state part of C15: following an array range [addr, addr + S) with
\* S > ZMarkPartialArrayMinSize, no slot is scanned twice and none outside
\* the range; every pushed partial range starts aligned to
\* ZMarkPartialArrayMinSize; the leading range of follow_large_array is not
\* empty and at most ZMarkPartialArrayMinSize; and once every pushed entry
\* has been popped and followed, the slots scanned are exactly those of
\* the range.
ArraySplitCoversExactly ==
  call.fn = "follow_array" =>
    /\ call.twice = {}
    /\ call.scanned \subseteq Slots(call.addr, call.size)
    /\ \A i \in 1 .. Len(call.stack) : call.stack[i].aligned
    /\ call.last.large => (call.last.size >= 1
                           /\ call.last.size <= ZMarkPartialArrayMinSize)
    /\ call.stack = << >> => call.scanned = Slots(call.addr, call.size)
    /\ Slots(call.addr, call.size) =
         call.scanned \cup UNION { Slots(call.stack[i].offset * ZMarkPartialArrayMinSize,
                                         call.stack[i].length * oopSize) :
                                   i \in 1 .. Len(call.stack) }

\* the recursion of C15: every pop of a partial array entry lowers the
\* number of bytes still on the stack, so the recursion terminates.
ArraySplitTerminates ==
  [][ (call.fn = "follow_array" /\ call'.fn = "follow_array"
       /\ call'.npops = call.npops + 1)
        => StackBytes(call'.stack) < StackBytes(call.stack) ]_vars

\* C15: for every array range [addr, addr + S) with S >
\* ZMarkPartialArrayMinSize the ranges scanned inline and the ranges pushed
\* by follow_large_array, followed recursively as they are popped, cover
\* the range exactly and without overlap; every pushed range starts aligned
\* to ZMarkPartialArrayMinSize, the leading range is not empty and at most
\* ZMarkPartialArrayMinSize, and the recursion terminates.
C15_ArraySplit == []ArraySplitCoversExactly /\ ArraySplitTerminates

\* an unaligned array has been followed to the end through a popped entry
\* that was itself large enough to be split again
C15_Witness ==
  /\ call.fn = "follow_array" /\ call.stack = << >>
  /\ ~is_aligned(call.addr, ZMarkPartialArrayMinSize)
  /\ call.size > 3 * ZMarkPartialArrayMinSize
  /\ call.scanned = Slots(call.addr, call.size)


(************************ allocation rate rules ***************************)
\* time_until_oom - gc_duration - sample_interval, as the static mode of the
\* rule is written down: free / (avg * spike_tolerance + sd * one_in_1000 +
\* 1.0) less serial_gc_time + parallelizable_gc_time / ConcGCThreads
StaticTimeUntilOom(in) ==
  FDiv(free_of(in) * Unit,
       FMul(in.avg, in.spike) + FMul(in.sd, one_in_1000) + in.one_byte)
StaticGcDuration(in) ==
  serial_gc_time_of(in) + (parallelizable_gc_time_of(in) \div in.C)
StaticTimeUntilGc(in) ==
  StaticTimeUntilOom(in) - StaticGcDuration(in) - sample_interval

\* C16: the static allocation rate rule returns None when is_time_trustable is
\* false; otherwise it returns AllocRate exactly when time_until_gc <= 0 and
\* None when not, so that whenever it fires time_until_oom <= gc_duration +
\* sample_interval.
C16_StaticRule ==
  call.fn = "rule_allocation_rate_static" =>
    LET in == call.in
        cause == call.request.cause
    IN /\ cause \in { no_gc, "AllocRate" }
       /\ ~in.is_time_trustable => cause = no_gc
       /\ in.is_time_trustable => (cause = "AllocRate" <=> StaticTimeUntilGc(in) <= 0)
       /\ cause = "AllocRate" =>
            StaticTimeUntilOom(in) <= StaticGcDuration(in) + sample_interval

\* the static rule has fired on an input whose times can be trusted
C16_Witness ==
  /\ call.fn = "rule_allocation_rate_static"
  /\ call.in.is_time_trustable
  /\ call.request.cause = "AllocRate"
  /\ StaticTimeUntilGc(call.in) <= 0

\* time_until_gc of the dynamic mode for a worker count actual, as it is
\* written down
DynamicTimeUntilGc(in, time_until_oom, actual) ==
  time_until_oom
    - (serial_gc_time_of(in) + (parallelizable_gc_time_of(in) \div actual))
    - sample_interval - ((in.C - actual) * sample_interval)

\* C18: the dynamic allocation rate rule returns None when is_time_trustable
\* is false; when it is true the rule fires AllocRate exactly when actual >
\* last_active_workers or time_until_gc <= 0, with actual = clamp(ceil(n), 1,
\* C) the worker count of the request.
C18_DynamicRule ==
  call.fn = "rule_allocation_rate_dynamic" =>
    LET in == call.in
        cause == call.request.cause
        t == dynamic_terms(in)
        actual == clamp(Ceil(t.gc_workers), 1, in.C)
        time_until_gc == DynamicTimeUntilGc(in, t.time_until_oom, actual)
    IN /\ cause \in { no_gc, "AllocRate" }
       /\ ~in.is_time_trustable => cause = no_gc
       /\ in.is_time_trustable =>
            /\ call.request.nworkers = actual
            /\ cause = "AllocRate" <=>
                 (actual > in.last_active_workers \/ time_until_gc <= 0)

\* the rule has fired for more workers than the last cycle had although
\* there is time left
C18_Witness ==
  /\ call.fn = "rule_allocation_rate_dynamic"
  /\ call.in.is_time_trustable
  /\ call.request.cause = "AllocRate"
  /\ call.request.nworkers > call.in.last_active_workers
  /\ dynamic_terms(call.in).time_until_gc > 0

C20_NewFormDecides ==
  (call.fn = "rule_allocation_rate" /\ call.in.UseDynamicNumberOfGCThreads) =>
    call.request = rule_allocation_rate_dynamic(call.in)

\* on scenario 3 with UseNewCode off the allocation rate rule has returned
\* the request of rule_allocation_rate_dynamic_orig, where the new form
\* computes another one
C20_OrigDecides ==
  /\ call.fn = "rule_allocation_rate" /\ call.in.UseDynamicNumberOfGCThreads
  /\ call.in = [Scenario3 EXCEPT !.UseNewCode = FALSE]
  /\ call.request = rule_allocation_rate_dynamic_orig(call.in)
  /\ call.request # rule_allocation_rate_dynamic(call.in)


\* C21: the worker count of every request rule_allocation_rate_dynamic
\* returns lies in [1, ConcGCThreads], whatever the statistics, the free
\* memory, time_since_last and last_active_workers are (0 included).
C21_DynamicWorkersInRange ==
  call.fn = "rule_allocation_rate_dynamic" =>
    (call.request.nworkers >= 1 /\ call.request.nworkers <= call.in.C)

\* the rule was applied with no worker active in the last cycle and more
\* workers wanted than there are; the request carries ConcGCThreads
C21_Witness ==
  /\ call.fn = "rule_allocation_rate_dynamic" /\ call.in.is_time_trustable
  /\ call.in.last_active_workers = 0
  /\ Ceil(dynamic_terms(call.in).gc_workers) > call.in.C
  /\ call.request.nworkers = call.in.C


(****************** warmup, timer, high usage, proactive *******************)
\* C22 as stated: the warmup rule returns None when is_warm; otherwise it
\* returns Warmup exactly when used >= soft_max_capacity * (nwarmup_cycles +
\* 1) * 0.1.
C22_WarmupAtTenths ==
  call.fn = "rule_warmup" =>
    LET in == call.in
        cause == call.request.cause
    IN /\ cause \in { no_gc, "Warmup" }
       /\ in.is_warm => cause = no_gc
       /\ ~in.is_warm =>
            (cause = "Warmup" <=>
               10 * in.used >= in.soft_max_capacity * (in.nwarmup_cycles + 1))

\* C22, amended: the warmup rule returns None when is_warm; otherwise it
\* returns Warmup exactly when used is at least soft_max_capacity *
\* (nwarmup_cycles + 1) * 0.1 rounded down to a whole number of bytes, that
\* is, when used + 1 > soft_max_capacity * (nwarmup_cycles + 1) * 0.1; with
\* soft_max_capacity = 1024 and no warmup cycle yet, None at used = 0 and
\* Warmup at used = 150.
C22_WarmupAtTenthsRoundedDown ==
  call.fn = "rule_warmup" =>
    LET in == call.in
        cause == call.request.cause
    IN /\ cause \in { no_gc, "Warmup" }
       /\ in.is_warm => cause = no_gc
       /\ ~in.is_warm =>
            (cause = "Warmup" <=>
               10 * (in.used + 1) > in.soft_max_capacity * (in.nwarmup_cycles + 1))
       /\ (~in.is_warm /\ in.soft_max_capacity = 1024 /\ in.nwarmup_cycles = 0) =>
            /\ in.used = 0 => cause = no_gc
            /\ in.used = 150 => cause = "Warmup"

\* the rule has fired with used below the tenth of the soft limit, which is
\* not a whole number of bytes
C22_Witness ==
  /\ call.fn = "rule_warmup" /\ ~call.in.is_warm
  /\ call.request.cause = "Warmup"
  /\ 10 * call.in.used < call.in.soft_max_capacity * (call.in.nwarmup_cycles + 1)


\* C23: the timer rule returns Timer exactly when ZCollectionInterval > 0 and
\* time_since_last >= ZCollectionInterval; with ZCollectionInterval = 0 it
\* returns None for every time_since_last.
C23_TimerRule ==
  call.fn = "rule_timer" =>
    LET in == call.in
        cause == call.request.cause
    IN /\ cause \in { no_gc, "Timer" }
       /\ cause = "Timer" <=>
            (in.ZCollectionInterval > 0 /\ in.time_since_last >= in.ZCollectionInterval)
       /\ in.ZCollectionInterval = 0 => cause = no_gc

\* the timer has fired at the very moment the interval has passed
C23_Witness ==
  /\ call.fn = "rule_timer" /\ call.request.cause = "Timer"
  /\ call.in.ZCollectionInterval > 0
  /\ call.in.time_since_last = call.in.ZCollectionInterval

\* free memory as the high usage rule is written down:
\* max(0, max(0, soft_max_capacity - used) - relocation_headroom)
FreeWithoutUnderflow(in) ==
  Max(0, Max(0, in.soft_max_capacity - in.used) - in.relocation_headroom)

\* C24: the high usage rule returns HighUsage exactly when free /
\* soft_max_capacity <= 5%, free being max(0, max(0, soft_max_capacity -
\* used) - relocation_headroom), also with used above soft_max_capacity and
\* with a headroom above what is left; soft_max = 1024, used = 980, headroom
\* = 16 fires.
C24_HighUsageRule ==
  call.fn = "rule_high_usage" =>
    LET in == call.in
        cause == call.request.cause
    IN /\ cause \in { no_gc, "HighUsage" }
       /\ cause = "HighUsage" <=>
            100 * FreeWithoutUnderflow(in) <= 5 * in.soft_max_capacity
       /\ (in.soft_max_capacity = 1024 /\ in.used = 980 /\ in.relocation_headroom = 16)
            => cause = "HighUsage"

\* the rule has fired with used above the soft limit and a headroom on top
C24_Witness ==
  /\ call.fn = "rule_high_usage" /\ call.request.cause = "HighUsage"
  /\ call.in.used > call.in.soft_max_capacity
  /\ call.in.relocation_headroom > 0

\* serial_gc_time + parallelizable_gc_time / ConcGCThreads
ProactiveGcDuration(in) ==
  serial_gc_time_of(in) + (parallelizable_gc_time_of(in) \div in.C)

\* C25 as stated: the proactive rule returns None unless ZProactive is set
\* and is_warm holds; it returns None when both used < used_at_relocate_end +
\* 0.1 * soft_max_capacity and time_since_last < 300 s; otherwise it returns
\* Proactive exactly when time_since_last >= 49 * gc_duration.
C25_ProactiveRule ==
  call.fn = "rule_proactive" =>
    LET in == call.in
        cause == call.request.cause
        enabled == in.ZProactive /\ in.is_warm
        gated == /\ 10 * in.used < (10 * in.used_at_relocate_end) + in.soft_max_capacity
                 /\ in.time_since_last < 300 * Unit
    IN /\ cause \in { no_gc, "Proactive" }
       /\ ~enabled => cause = no_gc
       /\ (enabled /\ gated) => cause = no_gc
       /\ (enabled /\ ~gated) =>
            (cause = "Proactive" <=> in.time_since_last >= 49 * ProactiveGcDuration(in))

\* C25, amended: as C25, with the growth of 0.1 * soft_max_capacity rounded
\* down to a whole number of bytes: the rule returns None when both used <
\* used_at_relocate_end + floor(0.1 * soft_max_capacity) and time_since_last
\* < 300 s.
C25_ProactiveRuleRoundedDown ==
  call.fn = "rule_proactive" =>
    LET in == call.in
        cause == call.request.cause
        enabled == in.ZProactive /\ in.is_warm
        gated == /\ 10 * ((in.used - in.used_at_relocate_end) + 1) <= in.soft_max_capacity
                 /\ in.time_since_last < 300 * Unit
    IN /\ cause \in { no_gc, "Proactive" }
       /\ ~enabled => cause = no_gc
       /\ (enabled /\ gated) => cause = no_gc
       /\ (enabled /\ ~gated) =>
            (cause = "Proactive" <=> in.time_since_last >= 49 * ProactiveGcDuration(in))

\* the rule has fired before 300 s have passed because used has grown enough
C25_Witness ==
  /\ call.fn = "rule_proactive" /\ call.request.cause = "Proactive"
  /\ call.in.time_since_last < 300 * Unit
  /\ call.in.used >= call.in.used_at_relocate_end + (call.in.soft_max_capacity \div 10)


LeavesWorkLoop(w) == pc[w] # "free" /\ pc'[w] = "free"

\* ... because ZMarkTerminate::idle returned true
LeavesThroughIdle(w) ==
  /\ pc[w] = "idle_terminate"
  /\ enter_terminate_mode(state_nactive_workers, state_active_stripes).ret
  /\ state_nactive_workers' = terminate

\* ... because drain_and_publish returned false: the end pass has timed out
LeavesThroughTimeout(w) ==
  /\ task = "End" /\ timeout_expired
  /\ pc[w] \in { "flush", "signal" }

\* C27 as stated: in a mark task, when from some point on nothing new is
\* published and the work that remains is finite, the state becomes TERMINATE,
\* every worker leaves its work loop through idle() returning true, and no
\* worker stays in the idle loop for ever.
C27_TerminatesThroughIdle ==
  /\ InTask ~> (state_nactive_workers = terminate)
  /\ \A w \in WorkerIds : (pc[w] \in IdlePcs) ~> (pc[w] \notin IdlePcs)
  /\ [][\A w \in WorkerIds : LeavesWorkLoop(w) => LeavesThroughIdle(w)]_vars

\* C27 as the code has it: the same, unless the task is the end pass and its
\* deadline passes first; then the worker leaves through the timeout of
\* drain() and the state stays as it is.  Either way every worker of the task
\* finishes.
C27_TerminatesUnlessTimeout ==
  /\ InTask ~> (\/ state_nactive_workers = terminate
                \/ (task = "End" /\ timeout_expired))
  /\ (pcD = "task_wait") ~> (state_nactive_workers = terminate)
  /\ \A w \in WorkerIds : (pc[w] \in IdlePcs) ~> (pc[w] \notin IdlePcs)
  /\ \A w \in WorkerIds : (InTask /\ w \in RunningWorkers) ~> (pc[w] = "done")
  /\ [][\A w \in WorkerIds :
          LeavesWorkLoop(w) => (LeavesThroughIdle(w) \/ LeavesThroughTimeout(w))]_vars

\* two workers of a concurrent task have both left through idle(), the second
\* one finding the state TERMINATE already
C27_Witness ==
  /\ pcD = "task_wait" /\ task = "Concurrent" /\ nworkers = 2
  /\ state_nactive_workers = terminate
  /\ \A w \in TaskWorkers : pc[w] \in { "free", "done" }
  /\ last_op.op = "enter_terminate_mode" /\ last_op.n = terminate /\ last_op.ret


(***************************** no lost wake-up ****************************)
\* worker w sits in the loop of ZMarkTerminate::idle while stripes are
\* flagged active and the state is not TERMINATE
IdleWithActiveStripes(w) ==
  /\ InTask /\ w \in RunningWorkers
  /\ pc[w] \in IdlePcs
  /\ state_active_stripes \cap stripe_map # {}
  /\ state_nactive_workers # terminate

\* idle() has returned false to worker w, which drains again
ResumesMarking(w) == pc[w] = "drain"

\* the flags have just been cleared by an enter_idle_mode() that returned false
ClearedByEnterIdleMode ==
  /\ state_active_stripes = {}
  /\ last_op.op = "enter_idle_mode" /\ ~last_op.ret

\* this step is an enter_idle_mode() returning false to some worker
EnterIdleModeReturnsFalse ==
  \E w \in WorkerIds : pc[w] = "enter_idle" /\ pc'[w] = "drain"

\* C28: stripes flagged by set_active_stripes while the state is not
\* TERMINATE and a worker is in the idle loop are not lost: TERMINATE is not
\* entered while a flag is set; the idle worker gets false from idle() and
\* drains again, unless another worker's enter_idle_mode took the flags and
\* that worker went back to marking; and flags are taken away only by such an
\* enter_idle_mode or by reset.
C28_NoLostWakeUp ==
  /\ [][(state_nactive_workers # terminate /\ state_nactive_workers' = terminate)
          => state_active_stripes = {}]_vars
  /\ \A w \in WorkerIds :
       IdleWithActiveStripes(w) ~> (ResumesMarking(w) \/ ClearedByEnterIdleMode)
  /\ [][(state_active_stripes \ state_active_stripes' # {})
          => (EnterIdleModeReturnsFalse \/ ResetStep)]_vars

\* all workers were idle when a Java thread's flush flagged a stripe, and
\* exit_idle_mode has sent one of them back to drain
C28_Witness ==
  /\ pcD = "task_wait" /\ nworkers = 2
  /\ last_op.op = "exit_idle_mode" /\ last_op.ret /\ last_op.n = 0
  /\ \E w \in TaskWorkers : pc[w] = "drain"
  /\ state_nactive_workers = 1 /\ state_active_stripes # {}


(************************** terminating together **************************)
\* worker w has got true from idle() and is at, or past, ZMark::free
HasLeftWorkLoop(w) == pc[w] \in { "free", "done" }

\* no entry is popped in this step: no stack leaves a stripe's list and no
\* worker's local stacks change
NothingProcessed ==
  /\ \A s \in StripeIds : stripes'[s] >= stripes[s]
  /\ \A w \in WorkerIds : stacks'[w] = stacks[w] /\ pc'[w] \notin { "drain", "steal" }

\* idle() has returned true to a worker of the running task
SomeWorkerTerminated ==
  /\ InTask
  /\ \/ state_nactive_workers = terminate
     \/ \E w \in RunningWorkers : HasLeftWorkLoop(w)

\* C29: the workers of a task terminate together.  Once idle() has returned
\* true to one worker, every other worker of the task is in the idle loop or
\* has left it with true as well; each of them leaves the work loop, and only
\* through idle() returning true, also when set_active_stripes flags stripes
\* after TERMINATE; and no worker processes another mark-stack entry in that
\* task.
C29_TerminateTogether ==
  /\ [](SomeWorkerTerminated
          => \A w \in RunningWorkers : pc[w] \in IdlePcs \/ HasLeftWorkLoop(w))
  /\ \A w \in WorkerIds :
       (SomeWorkerTerminated /\ w \in RunningWorkers) ~> (pc[w] = "done")
  /\ [][SomeWorkerTerminated
          => /\ NothingProcessed
             /\ \A w \in WorkerIds : LeavesWorkLoop(w) => LeavesThroughIdle(w)]_vars

\* the second worker has got true from idle() although a stripe was flagged
\* after the first one had entered TERMINATE
C29_Witness ==
  /\ pcD = "task_wait" /\ nworkers = 2
  /\ state_nactive_workers = terminate /\ state_active_stripes # {}
  /\ \A w \in TaskWorkers : HasLeftWorkLoop(w)
  /\ last_op.op = "enter_terminate_mode" /\ last_op.ret
  /\ last_op.n = terminate /\ last_op.s # {}
  /\ ~stripes_is_empty


(********************** publish: hand over, then flag **********************)
\* the stripes whose list gets a stack in this step
Received == { s \in StripeIds : stripes'[s] > stripes[s] }

\* thread t runs the flush of ZMark::publish in this step
FlushesInPublish(t) ==
  \/ t \in WorkerIds /\ pc[t] = "flush"
  \/ t \in JavaThreads /\ pcJ[t] = "run"
       /\ pcJ'[t] \in { "signal_flush", "signal_handshake" }

\* thread t runs the set_active_stripes of ZMark::publish in this step
SignalsPublished(t) ==
  /\ published[t] # {} /\ published'[t] = {}
  /\ state_active_stripes' = state_active_stripes \cup published[t]

\* C30: publish() hands every non-empty local stack to its stripe's list and
\* only then flags the stripes.  The map a thread passes to
\* set_active_stripes holds exactly the stripes that got a stack in its flush,
\* which left the thread no stack; the flags do not change in the flush step;
\* and a stripe is flagged only by a thread passing the map of its finished
\* flush, or in a step that puts a stack on that stripe's list, so that the
\* stack is on the list, or has been taken from it, when the flag shows.
C30_HandOverBeforeFlag ==
  /\ [][\A t \in Threads :
          published'[t] # published[t]
            => \/ /\ published[t] = {}
                  /\ published'[t] = Received
                  /\ \A s \in Received : stripes'[s] = stripes[s] + 1
                  /\ state_active_stripes' = state_active_stripes
                  /\ FlushesInPublish(t) => (Received = stacks[t] /\ stacks'[t] = {})
               \/ SignalsPublished(t)]_vars
  /\ [][\A t \in WorkerIds :
          (pc[t] = "flush" /\ pc'[t] # "flush")
            => (published'[t] = stacks[t] /\ stacks'[t] = {})]_vars
  /\ [][(state_active_stripes' \ state_active_stripes # {})
          => \/ \E t \in Threads : SignalsPublished(t)
             \/ state_active_stripes' \ state_active_stripes \subseteq Received]_vars

\* a worker is about to flag a stripe for a stack that has already been taken
\* from the stripe's list by another worker
C30_Witness ==
  /\ pcD = "task_wait"
  /\ \E w \in TaskWorkers :
       /\ pc[w] = "signal"
       /\ \E s \in published[w] : stripes[s] = 0 /\ s \notin state_active_stripes
       /\ \E v \in TaskWorkers \ {w} : stacks[v] # {} /\ pc[v] = "drain"


(************************ enter_idle_mode's effect ************************)
\* C31: enter_idle_mode(map) returns having done one of two things to the
\* word it read last: (a) no bit of map was set: nactive_workers is one less,
\* active_stripes is as it was, true is returned; (b) a bit of map was set:
\* the bits of map are cleared, the other bits and nactive_workers are as
\* they were, false is returned.  A cmpxchg that fails because another thread
\* wrote in between changes nothing and the loop goes on with the fresh word.
C31_EnterIdleModeEffect ==
  /\ (call.fn = "enter_idle_mode" /\ call.pc = "done")
       => LET old == call.old_state
              new == call.state
          IN \/ /\ old.s \cap call.map = {}
                /\ call.ret
                /\ new.n = old.n - 1 /\ new.s = old.s
             \/ /\ old.s \cap call.map # {}
                /\ ~call.ret
                /\ new.n = old.n
                /\ new.s \cap call.map = {}
                /\ new.s \ call.map = old.s \ call.map
  /\ (call.fn = "enter_idle_mode" /\ call.pc = "cmpxchg" /\ call.writes = 0)
       => call.state = call.first

\* the call has cleared its stripe's flag, found set only at the retry, and
\* left the flag of another stripe alone
C31_Witness ==
  /\ call.fn = "enter_idle_mode" /\ call.pc = "done" /\ ~call.ret
  /\ call.old_state # call.first
  /\ call.first.s \cap call.map = {}
  /\ call.state.s # {}


\* C32: the assert of enter_idle_mode holds in every task, the end task
\* started by reset(1) included: whatever word a worker reads while it is in
\* enter_idle_mode, the word is not cleared; indeed nactive_workers is then
\* neither 0 nor TERMINATE.
C32_EnterIdleModeNotCleared ==
  \A w \in WorkerIds :
    pc[w] = "enter_idle"
      => /\ ~(state_nactive_workers = 0 /\ state_active_stripes = {})
         /\ state_nactive_workers \notin { 0, terminate }

\* the worker of the end task is about to call enter_idle_mode
C32_Witness ==
  /\ task = "End" /\ pcD = "end_wait"
  /\ pc[0] = "enter_idle"
  /\ state_nactive_workers = 1


(*************************** ZMark::free's assert *************************)
\* positions of ZMark::work between a publish and the next pop or install,
\* ZMark::free included
AfterPublishPcs == { "steal", "enter_idle", "idle_terminate", "idle_exit", "free" }

\* C33: at every call of ZMark::free the thread's local stacks are empty.  A
\* worker holds no local stack from its publish until it pops or installs
\* one, it leaves the work loop only from a publish (timeout) or from idle()
\* (termination), a stack it stole takes it back to drain, and a thread
\* flushed with free_magazine = true holds no stack once its flush is done.
C33_FreeFindsStacksEmpty ==
  /\ [](/\ \A w \in WorkerIds : pc[w] \in AfterPublishPcs => stacks[w] = {}
        /\ \A j \in JavaThreads : pcJ[j] = "signal_handshake" => stacks[j] = {})
  /\ [][\A w \in WorkerIds :
          /\ LeavesWorkLoop(w) => pc[w] \in { "flush", "signal", "idle_terminate" }
          /\ (pc[w] = "steal" /\ stacks'[w] # {}) => pc'[w] = "drain"]_vars

\* the worker of the end pass is at ZMark::free after a timeout, its stacks
\* published and still on a stripe's list
C33_Witness ==
  /\ task = "End" /\ timeout_expired
  /\ pc[0] = "free" /\ stacks[0] = {}
  /\ ~stripes_is_empty


(************************** the end pass's deadline ***********************)
\* C34: ZMarkEndContext::should_timeout reads the clock only on calls number
\* 100, 200, 300, ...: it returns false on every call before the 100th
\* whatever the time is, it returns true for the first time only on a call
\* whose number is a multiple of 100 with now >= timeout_end, and having
\* returned true it returns true on every later call.
\* ZMarkContext::should_timeout returns false on every call.
C34_ShouldTimeoutEvery100 ==
  (call.fn = "should_timeout" /\ call.ncalls >= 1)
    => IF call.context = "End"
       THEN /\ call.consulted => call.ncalls % 100 = 0
            /\ call.ncalls < 100 => ~call.ret
            /\ (call.ret /\ ~call.returned_before)
                 => (call.ncalls % 100 = 0 /\ call.late /\ call.consulted)
            /\ call.returned_before => call.ret
       ELSE ~call.ret /\ ~call.consulted

\* the deadline passed between the 100th and the 200th call, and the 200th
\* call is the first to return true
C34_Witness ==
  /\ call.fn = "should_timeout" /\ call.context = "End"
  /\ call.ncalls = 200 /\ call.ret /\ ~call.returned_before /\ call.consulted


(****************************** stealing **********************************)
\* C35: steal(home, stacks, map) looks at the other stripes in stripe_next
\* order, from the one after home until it is back at home; it never takes
\* from home and calls steal_stack() only on stripes in map; the first stack
\* it gets is installed as the worker's stack for home and true is returned;
\* with none it returns false and all lists and stacks are as before.  With
\* one stripe it returns false and does nothing.
C35_StealWalk ==
  call.fn = "steal"
    => /\ \A i \in 1 .. Len(call.visited) :
            call.visited[i] = (call.home + i) % nstripes
       /\ Len(call.visited) <= nstripes - 1
       /\ call.tried = SelectSeq(call.visited, LAMBDA v : v \in call.map)
       /\ call.from # call.home
       /\ IF call.ret
          THEN /\ call.from = call.visited[Len(call.visited)]
               /\ call.from \in call.map \cap call.full
               /\ \A i \in 1 .. (Len(call.visited) - 1) :
                    call.visited[i] \notin call.map \cap call.full
               /\ call.full_after = call.full \ { call.from }
               /\ call.stacks_after = { call.home }
          ELSE /\ Len(call.visited) = nstripes - 1
               /\ call.map \cap call.full \subseteq { call.home }
               /\ call.full_after = call.full
               /\ call.stacks_after = {}
       /\ nstripes = 1 => (~call.ret /\ call.visited = << >>)

\* the stack was taken from the third stripe after home: the first had a
\* stack but was not in the map, the second was in the map but had none
C35_Witness ==
  /\ call.fn = "steal" /\ call.ret /\ nstripes = 4
  /\ Len(call.visited) = 3 /\ Len(call.tried) = 2
  /\ call.visited[1] \in call.full \ call.map
  /\ call.home \in call.map \cap call.full


(*************************** complete() and end() *************************)
\* the driver calls ZMark::start in this step
StartStep == pcD \in { "init", "ended" } /\ pcD' = "mark_roots"

\* C36: complete() runs the serial end pass iff stripes are flagged active
\* after the safepoint flush and counts each end pass once in _ncomplete; it
\* returns true iff no stripe is flagged afterwards; end() adds one to
\* _ncontinue iff it returns false; start() sets _nrestart, _ncomplete and
\* _ncontinue to 0.  Nothing else changes _ncomplete or _ncontinue.
C36_CompleteAndEnd ==
  [][ /\ (pcD = "complete_verify2" /\ pcD' # pcD)
           => /\ pcD' = (IF state_active_stripes # {} THEN "end_wait"
                         ELSE "complete_verify3")
              /\ ncomplete' = ncomplete
      /\ (pcD = "end_wait" /\ pcD' # pcD)
           => (pcD' = "complete_verify3" /\ ncomplete' = ncomplete + 1)
      /\ (pcD = "complete_verify3" /\ pcD' # pcD)
           => IF state_active_stripes # {}
              THEN pcD' = "continue" /\ ncontinue' = ncontinue + 1
              ELSE pcD' = "ended" /\ ncontinue' = ncontinue
      /\ StartStep => (nrestart' = 0 /\ ncomplete' = 0 /\ ncontinue' = 0)
      /\ ncomplete' # ncomplete => (pcD = "end_wait" \/ StartStep)
      /\ ncontinue' # ncontinue => (pcD = "complete_verify3" \/ StartStep)
    ]_vars

\* end() has returned true after it had returned false once, and each of the
\* two calls had run an end pass
C36_Witness ==
  /\ pcD = "ended"
  /\ ncontinue = 1 /\ ncomplete = 2
  /\ state_active_stripes = {}


(**************************** following an entry **************************)
\* C37 as stated: for an Object entry whose try_mark succeeds, an object
\* array with entry.follow set is scanned through follow_array, and in every
\* other case, an object array with follow = false included, the object's
\* references are iterated through the closure for the entry's finalizable;
\* an entry whose try_mark fails is dropped.
C37_FollowsObjectOtherwise ==
  (call.fn = "mark_and_follow" /\ ~call.entry.partial_array)
    => IF ~call.marked THEN call.followed.what = "nothing"
       ELSE IF call.obj.kind = "objArray" /\ call.entry.follow
       THEN call.followed = FollowCall("follow_array_object", call.entry.finalizable)
       ELSE call.followed = FollowCall("follow_object", call.entry.finalizable)

\* C37 as the code has it: the same, except that an object array whose entry
\* has follow = false is marked and not followed at all.
C37_ArrayWithoutFollowNotFollowed ==
  (call.fn = "mark_and_follow" /\ ~call.entry.partial_array)
    => /\ call.marked = (~call.obj.allocating /\ call.obj.mark_success)
       /\ IF ~call.marked THEN call.followed.what = "nothing"
          ELSE IF call.obj.kind = "objArray"
          THEN IF call.entry.follow
               THEN call.followed = FollowCall("follow_array_object", call.entry.finalizable)
               ELSE call.followed.what = "nothing"
          ELSE call.followed = FollowCall("follow_object", call.entry.finalizable)

\* an object array has been marked through an entry with follow = false
C37_Witness ==
  /\ call.fn = "mark_and_follow" /\ ~call.entry.partial_array
  /\ call.marked /\ call.obj.kind = "objArray" /\ ~call.entry.follow
  /\ call.followed.what = "nothing"


(*************************** halving the middle ***************************)
FloorLog2(n) == CHOOSE k \in 0 .. 30 : 2 ^ k <= n /\ n < 2 ^ (k + 1)
CeilLog2(n) == CHOOSE k \in 0 .. 30 : n <= 2 ^ k /\ (k = 0 \/ 2 ^ (k - 1) < n)

\* the size of the i-th chunk pushed, in multiples of ZMarkPartialArrayMinSize
ChunkParts(i) == (call.pushed[i].length * oopSize) \div ZMarkPartialArrayMinSize

\* the chunks pushed are whole multiples of ZMarkPartialArrayMinSize and
\* there are at most ceil(log2(m)) + 1 of them
ChunksAreFew ==
  /\ \A i \in 1 .. Len(call.pushed) :
       /\ call.pushed[i].aligned
       /\ call.pushed[i].length * oopSize = ChunkParts(i) * ZMarkPartialArrayMinSize
       /\ ChunkParts(i) >= 1
  /\ Len(call.pushed) <= CeilLog2(call.m) + 1

\* C38 as stated: for an aligned middle range of m * ZMarkPartialArrayMinSize
\* bytes, m >= 1, the halving loop terminates, pushes at most
\* ceil(log2(m)) + 1 chunks, and the size of every chunk is a power of two
\* times ZMarkPartialArrayMinSize.
C38_ChunksArePowersOfTwo ==
  call.fn = "push_middle_parts"
    => /\ ChunksAreFew
       /\ \A i \in 1 .. Len(call.pushed) : IsPowerOf2(ChunkParts(i))

\* C38 as the code has it: the loop terminates and pushes exactly
\* floor(log2(m)) + 1 chunks, which is at most ceil(log2(m)) + 1; each chunk
\* is half of what was left of the range, rounded up to a multiple of
\* ZMarkPartialArrayMinSize, so the chunks lie end to end from middle_end
\* down to middle_start; their sizes are powers of two times
\* ZMarkPartialArrayMinSize when m is a power of two, not in general.
C38_ChunksAreRoundedUpHalves ==
  call.fn = "push_middle_parts"
    => /\ ChunksAreFew
       /\ Len(call.pushed) = FloorLog2(call.m) + 1
       /\ \A i \in 1 .. Len(call.pushed) :
            LET end_i == IF i = 1 THEN call.middle_end
                         ELSE call.pushed[i - 1].offset * ZMarkPartialArrayMinSize
                left == (end_i - call.middle_start) \div ZMarkPartialArrayMinSize
            IN /\ ChunkParts(i) = (left + 1) \div 2
               /\ call.pushed[i].offset * ZMarkPartialArrayMinSize
                    = end_i - ChunkParts(i) * ZMarkPartialArrayMinSize
       /\ call.pushed[Len(call.pushed)].offset * ZMarkPartialArrayMinSize
            = call.middle_start
       /\ IsPowerOf2(call.m)
            => \A i \in 1 .. Len(call.pushed) : IsPowerOf2(ChunkParts(i))

\* a middle range of five parts has been pushed as chunks of three, one and
\* one parts
C38_Witness ==
  /\ call.fn = "push_middle_parts" /\ call.m = 5
  /\ Len(call.pushed) = 3
  /\ ChunkParts(1) = 3 /\ ChunkParts(2) = 1 /\ ChunkParts(3) = 1


\* the allocation rate is not steady: sd / (avg + 1.0) >= 0.15
AllocRateNotSteady(in) == FDiv(in.sd, in.avg + in.one_byte) >= (15 * Unit) \div 100

\* a call of the allocation rate rule in dynamic mode, in either form
DynamicRuleCalled ==
  \/ call.fn \in { "rule_allocation_rate_dynamic", "rule_allocation_rate_dynamic_orig" }
  \/ call.fn = "rule_allocation_rate" /\ call.in.UseDynamicNumberOfGCThreads

\* the worker count the lowering step alone would give the request
SelectedWorkers(in) ==
  discrete_gc_workers(
    select_gc_workers(in, serial_gc_time_of(in), parallelizable_gc_time_of(in),
                      dynamic_terms(in).time_until_oom), in.C)

\* C39: in dynamic mode, when the allocation rate is not steady, the worker
\* count of the request is never below min(last_active_workers,
\* ConcGCThreads), in the new form of the rule and in the original one.
C39_NeverShrinksWhenNotSteady ==
  (DynamicRuleCalled /\ AllocRateNotSteady(call.in)) =>
    call.request.nworkers >= Min(call.in.last_active_workers, call.in.C)

\* the rule was applied with an allocation rate that is not steady, where
\* the lowering step alone gives fewer workers than the last cycle had, and
\* the request carries the worker count of the last cycle
C39_Witness ==
  /\ call.fn = "rule_allocation_rate_dynamic"
  /\ call.in.is_time_trustable
  /\ AllocRateNotSteady(call.in)
  /\ SelectedWorkers(call.in) < call.in.last_active_workers
  /\ call.request.nworkers = call.in.last_active_workers


(************************** select_gc_workers *****************************)
\* What select_gc_workers is given and reads: the times of a cycle, the time
\* until memory runs out, and last_active_workers <= C and time_since_last of
\* ZStatCycle.
SelectInputs ==
  { in \in [ serial_gc_time : { Unit \div 20 },
             parallelizable_gc_time : { (4 * Unit) \div 10, 2 * Unit },
             time_until_oom : { 0, (188 * Unit) \div 1000, Unit \div 2, 2 * Unit, 20 * Unit },
             time_since_last : { 0, Unit, 5 * Unit },
             last_active_workers : 1 .. 8,
             C : { ConcGCThreads, 8 } ] :
      in.last_active_workers <= in.C }

\* select_gc_workers is called on an input
CallSelectGcWorkers ==
  \E in \in SelectInputs :
    /\ call = NoCall
    /\ call' = [fn |-> "select_gc_workers", in |-> in,
                ret |-> select_gc_workers(in, in.serial_gc_time,
                                          in.parallelizable_gc_time, in.time_until_oom)]
    /\ UNCHANGED << markVars, directorVars >>

SelectNext == CallSelectGcWorkers

InitSelect == MarkInit /\ DirectorIdle /\ call = NoCall
SpecSelect == InitSelect /\ [][SelectNext]_vars

\* the worker count before the lowering step:
\* clamp(ceil(max(avoid_long, avoid_oom)), 1, C)
UnfrictionedWorkers(in) ==
  discrete_gc_workers(
    Max(estimated_gc_workers(in.serial_gc_time, in.parallelizable_gc_time, 10 * Unit),
        estimated_gc_workers(in.serial_gc_time, in.parallelizable_gc_time,
                             in.time_until_oom)), in.C)

\* C40: whenever the worker count before the lowering step is below
\* last_active_workers, the value select_gc_workers returns, made discrete by
\* clamp(ceil(.), 1, C), is at least that count and at most
\* last_active_workers: the lowering step only slows a decrease.
C40_FrictionOnlySlowsDecrease ==
  (call.fn = "select_gc_workers"
     /\ UnfrictionedWorkers(call.in) < call.in.last_active_workers) =>
    /\ discrete_gc_workers(call.ret, call.in.C) >= UnfrictionedWorkers(call.in)
    /\ discrete_gc_workers(call.ret, call.in.C) <= call.in.last_active_workers

\* the part of C40 that holds: after the lowering step the worker count is
\* not above last_active_workers
FrictionKeepsBelowLast ==
  (call.fn = "select_gc_workers"
     /\ UnfrictionedWorkers(call.in) < call.in.last_active_workers) =>
    discrete_gc_workers(call.ret, call.in.C) <= call.in.last_active_workers

\* select_gc_workers has returned one worker where three are needed to
\* finish before memory runs out: a cycle of one worker takes
\* serial_gc_time + parallelizable_gc_time, longer than time_until_oom
RecommendsTooFew ==
  /\ call.fn = "select_gc_workers"
  /\ call.in.time_until_oom = (188 * Unit) \div 1000
  /\ call.in.parallelizable_gc_time = (4 * Unit) \div 10
  /\ call.in.time_since_last = Unit
  /\ call.in.last_active_workers = 4 /\ call.in.C = 8
  /\ UnfrictionedWorkers(call.in) = 3
  /\ discrete_gc_workers(call.ret, call.in.C) = 1
  /\ call.in.serial_gc_time + call.in.parallelizable_gc_time > call.in.time_until_oom

====
